---------------------------- MODULE Spec2Model ----------------------------
(***************************************************************************)
(* Model of the keyframe sequencer firmware                                *)
(* (esp_code_accomodating_velocity, src/unnamed/part_003).                 *)
(*                                                                         *)
(* Text is a tuple of one-character strings, indexed from 0 by the String  *)
(* helpers exactly as the Arduino String class indexes it.  A float is an  *)
(* exact fraction [n, d] (d > 0, lowest terms): the rounding of 32-bit     *)
(* floats is not modelled.  unsigned long is an integer modulo 2^32.       *)
(***************************************************************************)
EXTENDS Integers, Sequences, FiniteSets, TLC

-----------------------------------------------------------------------------
(* Program constants *)

SERVO_MIN == 150

SERVO_MAX == 600

MAX_SERVOS == 32

UPDATE_INTERVAL_MS == 10

SETUP_DELAY_MS == 1000

DEFAULT_ACTIVE_SERVOS == 5

\* 2^16: an unsigned long is handled as two 16-bit halves
Half == 65536

\* 2^15
HalfSign == 32768

\* 2^24: a float holds every integer below it exactly (24-bit significand)
FloatExact == 16777216

-----------------------------------------------------------------------------
(* Bounds of the model *)

\* the clock is followed for MaxIntervals update intervals after setup
MaxIntervals == 1

-----------------------------------------------------------------------------
(* 32-bit integers.  An unsigned long is represented by the long that has  *)
(* the same 32 bits (u for u < 2^31, u - 2^32 otherwise), so that every    *)
(* value fits the integers of the model checker; the conversions between   *)
(* long and unsigned long are then the identity.                           *)

\* reassemble a 32-bit value from a high and a low part, wrapping the high part
Wrap32(hi, lo) ==
    (((hi + (lo \div Half) + HalfSign) % Half) - HalfSign) * Half + (lo % Half)

\* a + b modulo 2^32
ULAdd(a, b) == Wrap32((a \div Half) + (b \div Half), (a % Half) + (b % Half))

\* a - b modulo 2^32
ULSub(a, b) == Wrap32((a \div Half) - (b \div Half), (a % Half) - (b % Half))

\* a >= b on unsigned long
ULGeq(a, b) == IF (a >= 0) = (b >= 0) THEN a >= b ELSE a < 0

\* spacing of the floats around the non-negative integer s
RECURSIVE Quantum(_, _)
Quantum(s, q) == IF s \div q < FloatExact THEN q ELSE Quantum(s, 2 * q)

\* unsigned long -> float (round to nearest, ties to even): the integer the
\* float holds, as an unsigned long, and over = TRUE when the float is 2^32
FloatOfUL(u) ==
    LET q == IF u < 0 THEN 256 ELSE Quantum(u, 1)
        r == u % q
        base == u - r
        up == 2 * r > q \/ (2 * r = q /\ ((base \div q) % 2) = 1)
    IN  IF ~up THEN [v |-> base, over |-> FALSE]
        ELSE [v |-> ULAdd(base, q), over |-> u < 0 /\ base + q = 0]

\* what a float that holds 2^32 may become when converted to unsigned long
\* (the conversion is undefined): saturated (all ones) or wrapped
FloatOverflowResults == {-1, 0}

\* float -> unsigned long, ub the outcome of an out-of-range conversion
ULOfFloat(f, ub) == IF f.over THEN ub ELSE f.v

-----------------------------------------------------------------------------
(* Floats as exact fractions *)

Abs(x) == IF x < 0 THEN -x ELSE x

RECURSIVE Gcd(_, _)
Gcd(a, b) == IF b = 0 THEN a ELSE Gcd(b, a % b)

Frac(n, d) ==
    LET g == Gcd(Abs(n), Abs(d))
        s == IF d < 0 THEN -1 ELSE 1
    IN  [n |-> (s * n) \div g, d |-> (s * d) \div g]

F(i) == [n |-> i, d |-> 1]

\* sums are formed over the least common denominator
FAdd(a, b) ==
    LET l == (a.d \div Gcd(a.d, b.d)) * b.d
    IN  Frac(a.n * (l \div a.d) + b.n * (l \div b.d), l)

FSub(a, b) == FAdd(a, [n |-> -b.n, d |-> b.d])

FMul(a, b) == Frac(a.n * b.n, a.d * b.d)

FLt(a, b) == a.n * b.d < b.n * a.d

FLeq(a, b) == a.n * b.d <= b.n * a.d

\* the Arduino macro constrain(amt, low, high)
constrain(amt, low, high) ==
    IF FLt(amt, low) THEN low ELSE IF FLt(high, amt) THEN high ELSE amt

\* round(): half away from zero, result a long
round(a) ==
    IF a.n >= 0 THEN (2 * a.n + a.d) \div (2 * a.d)
    ELSE -((2 * (-a.n) + a.d) \div (2 * a.d))

\* the Arduino function map(x, in_min, in_max, out_min, out_max) on longs;
\* C++ division truncates toward zero
TruncDiv(a, b) == IF a >= 0 THEN a \div b ELSE -((-a) \div b)

map(x, in_min, in_max, out_min, out_max) ==
    TruncDiv((x - in_min) * (out_max - out_min), in_max - in_min) + out_min

\* angleToPulse without the constrain of the angle
angleToPulseUnclamped(angle) ==
    map(round(angle), 0, 180, SERVO_MIN, SERVO_MAX)

angleToPulse(angle) ==
    map(round(constrain(angle, F(0), F(180))), 0, 180, SERVO_MIN, SERVO_MAX)

-----------------------------------------------------------------------------
(* Arduino String operations, 0-indexed *)

Digits == <<"0", "1", "2", "3", "4", "5", "6", "7", "8", "9">>

IsDigit(c) == \E i \in 1..10 : Digits[i] = c

DigitVal(c) == (CHOOSE i \in 1..10 : Digits[i] = c) - 1

IsSpace(c) == c \in {" ", "\t", "\r", "\n"}

\* String::length
length(s) == Len(s)

\* String::indexOf(ch, fromIndex): -1 when absent or fromIndex >= length
indexOfFrom(s, ch, from) ==
    IF from >= Len(s) THEN -1
    ELSE LET hits == {i \in from..(Len(s) - 1) : s[i + 1] = ch}
         IN  IF hits = {} THEN -1
             ELSE CHOOSE i \in hits : \A j \in hits : i <= j

indexOf(s, ch) == indexOfFrom(s, ch, 0)

\* String::substring(left, right): swaps when left > right, clips right
substring(s, left, right) ==
    LET l == IF left > right THEN right ELSE left
        r0 == IF left > right THEN left ELSE right
        r == IF r0 > Len(s) THEN Len(s) ELSE r0
    IN  IF l >= Len(s) THEN <<>> ELSE SubSeq(s, l + 1, r)

\* String::substring(left)
substringFrom(s, left) == substring(s, left, Len(s))

\* String::trim
trim(s) ==
    LET keep == {i \in 1..Len(s) : ~IsSpace(s[i])}
    IN  IF keep = {} THEN <<>>
        ELSE LET lo == CHOOSE i \in keep : \A j \in keep : i <= j
                 hi == CHOOSE i \in keep : \A j \in keep : i >= j
             IN  SubSeq(s, lo, hi)

\* number of leading white-space characters (skipped by atol and atof)
LeadingSpaces(s) ==
    LET stop == {i \in 1..Len(s) : ~IsSpace(s[i])}
    IN  IF stop = {} THEN Len(s)
        ELSE (CHOOSE i \in stop : \A j \in stop : i <= j) - 1

\* length of the run of decimal digits of s that starts at 0-based index i
DigitRun(s, i) ==
    LET stop == {j \in i..(Len(s) - 1) : ~IsDigit(s[j + 1])}
    IN  IF i >= Len(s) THEN 0
        ELSE IF stop = {} THEN Len(s) - i
        ELSE (CHOOSE j \in stop : \A k \in stop : j <= k) - i

\* value of the decimal digits s[i .. i+k-1]
RECURSIVE DigitsValue(_, _, _)
DigitsValue(s, i, k) ==
    IF k = 0 THEN 0
    ELSE 10 * DigitsValue(s, i, k - 1) + DigitVal(s[i + k])

RECURSIVE Pow10(_)
Pow10(k) == IF k = 0 THEN 1 ELSE 10 * Pow10(k - 1)

\* String::toInt is atol: optional blanks, optional sign, leading digits;
\* 0 when no digits lead
toInt(s) ==
    LET b == LeadingSpaces(s)
        neg == b < Len(s) /\ s[b + 1] = "-"
        sgn == b < Len(s) /\ s[b + 1] \in {"-", "+"}
        st == IF sgn THEN b + 1 ELSE b
        k == DigitRun(s, st)
        v == DigitsValue(s, st, k)
    IN  IF neg THEN -v ELSE v

\* String::toFloat is atof: optional blanks, sign, digits, optional
\* fraction; 0 when no number leads (exponents and inf/nan spellings are
\* outside the input alphabet)
toFloat(s) ==
    LET b == LeadingSpaces(s)
        neg == b < Len(s) /\ s[b + 1] = "-"
        sgn == b < Len(s) /\ s[b + 1] \in {"-", "+"}
        st == IF sgn THEN b + 1 ELSE b
        k == DigitRun(s, st)
        dot == st + k < Len(s) /\ s[st + k + 1] = "."
        fk == IF dot THEN DigitRun(s, st + k + 1) ELSE 0
        ip == DigitsValue(s, st, k)
        fp == IF dot THEN DigitsValue(s, st + k + 1, fk) ELSE 0
        mag == IF k = 0 /\ fk = 0 THEN F(0)
               ELSE Frac(ip * Pow10(fk) + fp, Pow10(fk))
    IN  IF neg THEN Frac(-mag.n, mag.d) ELSE mag

-----------------------------------------------------------------------------
(* Data structures *)

\* struct ControlPoint, default-initialised
NoControlPoint == [dt |-> F(0), da |-> F(0), exists |-> FALSE]

\* struct Keyframe, default-initialised
DefaultKeyframe ==
    [time |-> 0, angle |-> F(90), cp_in |-> NoControlPoint,
     cp_out |-> NoControlPoint]

\* a ServoPlaybackInfo aggregate { state, currentSegment, segmentStartTime,
\* currentAngle, playingAll }
ServoPlaybackInfo(st, seg, start, angle, all) ==
    [state |-> st, currentSegment |-> seg, segmentStartTime |-> start,
     currentAngle |-> angle, playingAll |-> all]

-----------------------------------------------------------------------------
(* LOAD_SEQ payload parsing *)

\* the switch (paramIndex) of parseKeyframeSegment
ApplyParam(kf, paramIndex, param) ==
    CASE paramIndex = 0 -> [kf EXCEPT !.time = toInt(param)]
      [] paramIndex = 1 ->
            [kf EXCEPT !.angle = constrain(toFloat(param), F(0), F(180))]
      [] paramIndex = 2 /\ length(param) > 0 ->
            [kf EXCEPT !.cp_in.dt = toFloat(param), !.cp_in.exists = TRUE]
      [] paramIndex = 3 /\ length(param) > 0 ->
            [kf EXCEPT !.cp_in.da = toFloat(param), !.cp_in.exists = TRUE]
      [] paramIndex = 4 /\ length(param) > 0 ->
            [kf EXCEPT !.cp_out.dt = toFloat(param), !.cp_out.exists = TRUE]
      [] paramIndex = 5 /\ length(param) > 0 ->
            [kf EXCEPT !.cp_out.da = toFloat(param), !.cp_out.exists = TRUE]
      [] OTHER -> kf

\* one pass of the while loop of parseKeyframeSegment on the parameter that
\* substring and trim produced
RECURSIVE ParseParams(_, _, _, _, _)
ParseParam(segment, kf2, paramIndex, p_end) ==
    IF p_end = -1
    THEN [kf |-> kf2, paramIndex |-> paramIndex + 1]
    ELSE ParseParams(segment, kf2, paramIndex + 1, p_end + 1,
                     indexOfFrom(segment, ",", p_end + 1))

\* the while loop of parseKeyframeSegment; toInt and toFloat never throw, so
\* the catch branch is never taken
ParseParams(segment, kf, paramIndex, p_start, p_end) ==
    IF p_end /= -1 \/ p_start < length(segment)
    THEN ParseParam(segment,
                    ApplyParam(kf, paramIndex,
                               trim(IF p_end /= -1
                                    THEN substring(segment, p_start, p_end)
                                    ELSE substringFrom(segment, p_start))),
                    paramIndex, p_end)
    ELSE [kf |-> kf, paramIndex |-> paramIndex]

\* PushKeyframe with the field count off by one: a record of one field is
\* accepted
PushShortKeyframe(r, sequence) ==
    IF r.paramIndex >= 1
    THEN [ok |-> TRUE,
          sequence |-> Append(sequence,
              [r.kf EXCEPT !.angle = constrain(r.kf.angle, F(0), F(180))])]
    ELSE [ok |-> FALSE, sequence |-> sequence]

\* the end of parseKeyframeSegment: r is what the while loop left in kf and
\* paramIndex
PushKeyframe(r, sequence) ==
    IF r.paramIndex >= 2
    THEN [ok |-> TRUE,
          sequence |-> Append(sequence,
              [r.kf EXCEPT !.angle = constrain(r.kf.angle, F(0), F(180))])]
    ELSE [ok |-> FALSE, sequence |-> sequence]

\* parseKeyframeSegment: the result and the sequence after the call
parseKeyframeSegment(segment, sequence) ==
    PushKeyframe(ParseParams(segment, DefaultKeyframe, 0, 0,
                             indexOf(segment, ",")),
                 sequence)

\* the for loop of loadSequenceFromString after one parseKeyframeSegment call
\* returned r
RECURSIVE ParseRecords(_, _, _, _)
NextRecord(data, r, end) ==
    IF ~r.ok THEN [ok |-> FALSE, sequence |-> <<>>]
    ELSE IF end = -1 THEN r
    ELSE ParseRecords(data, r.sequence, end + 1,
                      indexOfFrom(data, ";", end + 1))

\* the parsing part of loadSequenceFromString: ok = FALSE when the function
\* returns early, otherwise the local vector `sequence`
ParseRecords(data, sequence, start, end) ==
    IF end = -1 /\ substringFrom(data, start) = <<>>
    THEN [ok |-> TRUE, sequence |-> sequence]
    ELSE NextRecord(data,
                    parseKeyframeSegment(
                        IF end /= -1 THEN substring(data, start, end)
                        ELSE substringFrom(data, start),
                        sequence),
                    end)

-----------------------------------------------------------------------------
(* Command decoding (the parsing steps of processCommand) *)

kwSTOP == <<"S", "T", "O", "P">>

kwCLEAR_ALL == <<"C", "L", "E", "A", "R", "_", "A", "L", "L">>

kwPLAY_LOADED == <<"P", "L", "A", "Y", "_", "L", "O", "A", "D", "E", "D">>

kwNUM_SERVOS == <<"N", "U", "M", "_", "S", "E", "R", "V", "O", "S">>

kwMA == <<"M", "A">>

kwSA == <<"S", "A">>

kwLOAD_SEQ == <<"L", "O", "A", "D", "_", "S", "E", "Q">>

kwPLAY_SERVO == <<"P", "L", "A", "Y", "_", "S", "E", "R", "V", "O">>

Instr(kind, servoId, num, angle, data) ==
    [kind |-> kind, servoId |-> servoId, num |-> num, angle |-> angle,
     data |-> data]

\* the handler processCommand selects for the trimmed line, with its
\* arguments as processCommand computes them
DecodeCommand(command) ==
    LET firstColon == indexOf(command, ":")
        cmdType == substring(command, 0, firstColon)
        payload == IF firstColon = length(command) - 1 THEN <<>>
                   ELSE substringFrom(command, firstColon + 1)
        secondColon == indexOf(payload, ":")
        first == toInt(substring(payload, 0, secondColon))
        rest == substringFrom(payload, secondColon + 1)
    IN  IF length(command) = 0 THEN Instr("EMPTY", 0, 0, F(0), <<>>)
        ELSE IF command = kwSTOP THEN Instr("STOP", 0, 0, F(0), <<>>)
        ELSE IF command = kwCLEAR_ALL
            THEN Instr("CLEAR_ALL", 0, 0, F(0), <<>>)
        ELSE IF command = kwPLAY_LOADED
            THEN Instr("PLAY_LOADED", 0, 0, F(0), <<>>)
        ELSE IF firstColon <= 0 THEN Instr("INVALID_FORMAT", 0, 0, F(0), <<>>)
        ELSE IF cmdType = kwNUM_SERVOS
            THEN Instr("NUM_SERVOS", 0, toInt(payload), F(0), <<>>)
        ELSE IF cmdType = kwMA
            THEN Instr("MA", 0, 0, toFloat(payload), <<>>)
        ELSE IF cmdType = kwSA
            THEN IF secondColon > 0
                 THEN Instr("SA", first, 0, toFloat(rest), <<>>)
                 ELSE Instr("INVALID_SA", 0, 0, F(0), <<>>)
        ELSE IF cmdType = kwLOAD_SEQ
            THEN IF secondColon > 0
                 THEN Instr("LOAD_SEQ", first, 0, F(0), rest)
                 ELSE Instr("INVALID_LOAD_SEQ", 0, 0, F(0), <<>>)
        ELSE IF cmdType = kwPLAY_SERVO
            THEN Instr("PLAY_SERVO", toInt(payload), 0, F(0), <<>>)
        ELSE Instr("UNKNOWN", 0, 0, F(0), <<>>)

\* the letters of the keywords, and String::toUpperCase on them
LowerCase == <<"a", "d", "e", "l", "m", "n", "o", "p", "q", "r", "s", "t",
               "u", "v", "y">>
UpperCase == <<"A", "D", "E", "L", "M", "N", "O", "P", "Q", "R", "S", "T",
               "U", "V", "Y">>
toUpperCase(s) ==
    [k \in 1..Len(s) |->
        IF \E j \in 1..Len(LowerCase) : LowerCase[j] = s[k]
        THEN UpperCase[CHOOSE j \in 1..Len(LowerCase) : LowerCase[j] = s[k]]
        ELSE s[k]]

\* a decoding that compares the keyword whatever its case
DecodeAnyCase(line) == DecodeCommand(toUpperCase(trim(line)))

\* processCommand up to the choice of the handler: the line is trimmed
\* and then decoded
Decode(line) == DecodeCommand(trim(line))

-----------------------------------------------------------------------------
(* Inputs: the command lines that arrive over the serial link *)

Text(kw, rest) == kw \o <<":">> \o rest

\* "0,90;20,180"
txtRamp ==
    <<"0", ",", "9", "0", ";", "2", "0", ",", "1", "8", "0">>

\* "0,0;0,90;10,180": the first segment has no duration
txtThree ==
    <<"0", ",", "0", ";", "0", ",", "9", "0", ";", "1", "0", ",", "1", "8", "0">>

\* "0,45"
txtOne ==
    <<"0", ",", "4", "5">>

\* "0,90;;10,0"
txtEmptyRecord ==
    <<"0", ",", "9", "0", ";", ";", "1", "0", ",", "0">>

\* "0,90;5"
txtShortRecord ==
    <<"0", ",", "9", "0", ";", "5">>

\* "0,90;500,INVALID"
txtInvalidAngle ==
    <<"0", ",", "9", "0", ";", "5", "0", "0", ",", "I", "N", "V", "A", "L", "I", "D">>

\* "0,45;"
txtTrailing ==
    <<"0", ",", "4", "5", ";">>

\* "2000,90;0,180": the second keyframe lies before the first
txtBackwards ==
    <<"2", "0", "0", "0", ",", "9", "0", ";", "0", ",", "1", "8", "0">>

\* LOAD_SEQ payloads: the well-formed ones and the malformed ones
GoodPayloads == {txtRamp, txtThree, txtOne, txtTrailing}

BadPayloads == {txtEmptyRecord, txtShortRecord, txtInvalidAngle}

\* the parsing loop of loadSequenceFromString on each payload of the input
\* lines, evaluated once
ParsedPayloads ==
    [data \in GoodPayloads \cup BadPayloads \cup {txtBackwards} |->
        ParseRecords(data, <<>>, 0, indexOf(data, ";"))]

\* the parsing loop of loadSequenceFromString on `data`
ParseSequence(data) ==
    IF data \in DOMAIN ParsedPayloads THEN ParsedPayloads[data]
    ELSE ParseRecords(data, <<>>, 0, indexOf(data, ";"))

LoadLines(id, payloads) ==
    {Text(kwLOAD_SEQ, Text(id, data)) : data \in payloads}

\* lines with a value outside its range: a channel id of LOAD_SEQ outside
\* [0, MAX_SERVOS), an angle above 180, a channel id of SA outside the active
\* count, a count outside [1, MAX_SERVOS]
RangeLines ==
    LoadLines(<<"3", "2">>, {txtRamp})
    \cup LoadLines(<<"-", "1">>, {txtRamp})
    \cup {Text(kwMA, <<"1", "8", "1">>),
          Text(kwSA, Text(<<"0">>, <<"1", "8", "1">>)),
          Text(kwMA, <<"-", "1">>),
          Text(kwSA, Text(<<"9">>, <<"4", "5">>)),
          Text(kwSA, Text(<<"-", "1">>, <<"4", "5">>)),
          Text(kwNUM_SERVOS, <<"0">>),
          Text(kwNUM_SERVOS, <<"3", "3">>)}

\* lines with a keyword in the wrong case, lines of a known keyword with a
\* field missing or a field too many, a keyword that needs a field without
\* its colon, and a line that starts with the colon
OddLines ==
    {<<"s", "t", "o", "p">>,
     Text(<<"S", "a">>, Text(<<"0">>, <<"9", "0">>)),
     Text(kwSA, <<"0">>),
     Text(kwSA, Text(<<"0">>, Text(<<"4", "5">>, <<"e", "x", "t", "r", "a">>))),
     Text(kwPLAY_SERVO, <<>>),
     Text(kwNUM_SERVOS, <<>>),
     kwMA,
     <<":", "9", "0">>}

InputLines ==
    {kwSTOP, kwCLEAR_ALL, kwPLAY_LOADED}
    \cup {Text(kwNUM_SERVOS, <<"6">>), Text(kwMA, <<"9", "0">>)}
    \cup {Text(kwSA, Text(<<"0">>, <<"4", "5">>))}
    \cup LoadLines(<<"0">>, GoodPayloads \cup BadPayloads)
    \cup LoadLines(<<"5">>, {txtRamp})
    \cup {Text(kwPLAY_SERVO, id) : id \in {<<"0">>, <<"5">>}}
    \cup RangeLines
    \cup OddLines

\* each input line as processCommand decodes it, evaluated once
Decoded == [line \in InputLines |-> Decode(line)]

\* the lines as processCommand decodes them
Instructions == {Decoded[line] : line \in InputLines}

\* how far the clock moves between two steps of the loop
ClockSteps == {10}

-----------------------------------------------------------------------------
(* State *)

VARIABLES
    g_sequences,        \* servo id -> vector of keyframes
    g_activeNumServos,
    g_playbackState,    \* global IDLE / PLAYING
    g_playbackInfo,     \* servo id -> ServoPlaybackInfo
    lastUpdateTime,
    now,                \* millis()
    pwm,                \* pca.setPWM calls of the latest step, in order
    serial,             \* status lines printed by the latest step, in order
    wasPlaying,         \* the servos that were PLAYING before the latest step
    halted,             \* setup() is stuck in while (1) after a failed begin()
    inputBuffer,
    commandComplete,
    wire,               \* the bytes the host sends in the whole run
    arrived,            \* how many of them have reached the serial port
    consumed,           \* how many of them Serial.read() has returned
    dispatched,         \* the lines handed to processCommand so far
    firmware,           \* which sketch runs on the board
    active_num_servos,  \* raw-pulse firmware: the count NUM_SERVOS sets
    input_buffer,       \* raw-pulse firmware: the line buffer
    command_ready,      \* raw-pulse firmware: a line is complete
    boards              \* raw-pulse firmware: setPWM calls of the latest pass

\* the serial input, byte by byte
ioVars ==
    <<inputBuffer, commandComplete, wire, arrived, consumed, dispatched>>

\* the globals and the output of the raw-pulse firmware
rawVars ==
    <<firmware, active_num_servos, input_buffer, command_ready, boards>>

vars ==
    <<g_sequences, g_activeNumServos, g_playbackState, g_playbackInfo,
      lastUpdateTime, now, pwm, serial, wasPlaying, halted, ioVars, rawVars>>

\* the servos whose state is PLAYING
Playing ==
    {c \in DOMAIN g_playbackInfo : g_playbackInfo[c].state = "PLAYING"}

\* the memory the handlers work on, with the output they have produced
Memory ==
    [sequences |-> g_sequences, activeNumServos |-> g_activeNumServos,
     playbackState |-> g_playbackState, playbackInfo |-> g_playbackInfo,
     pwm |-> <<>>, serial |-> <<>>]

\* std::map: m[k] = v
Put(m, k, v) == [x \in DOMAIN m \cup {k} |-> IF x = k THEN v ELSE m[x]]

EmptyMap == [x \in {} |-> 0]

setPWM(m, channel, pulse) ==
    [m EXCEPT !.pwm = Append(@, [channel |-> channel, pulse |-> pulse])]

\* one status line: its fixed text and the numbers printed in it
StatusLine(text, args) == [text |-> text, args |-> args]

println(m, text, args) ==
    [m EXCEPT !.serial = Append(@, StatusLine(text, args))]

-----------------------------------------------------------------------------
(* Command handlers: each maps the memory before the call to the memory    *)
(* after it                                                                *)

\* stopAllPlayback without the assignment to the global flag
stopAllPlaybackKeepsFlag(m) ==
    println([m EXCEPT
                !.playbackInfo =
                    [c \in DOMAIN @ |-> [@[c] EXCEPT !.state = "IDLE"]]],
            "All playback stopped", <<>>)

stopAllPlayback(m) ==
    println([m EXCEPT
                !.playbackInfo =
                    [c \in DOMAIN @ |-> [@[c] EXCEPT !.state = "IDLE"]],
                !.playbackState = "IDLE"],
            "All playback stopped", <<>>)

\* clearAllSequences without the call of stopAllPlayback
clearAllSequencesKeepsPlaying(m) ==
    println([m EXCEPT !.sequences = EmptyMap],
            "All stored sequences cleared.", <<>>)

\* clearAllSequences clearing the playback map as well
clearAllSequencesDroppingRecords(m) ==
    println(stopAllPlayback([m EXCEPT !.sequences = EmptyMap,
                                      !.playbackInfo = EmptyMap]),
            "All stored sequences cleared.", <<>>)

clearAllSequences(m) ==
    println(stopAllPlayback([m EXCEPT !.sequences = EmptyMap]),
            "All stored sequences cleared.", <<>>)

\* setNumServos without the upper limit on the count
setNumServosAboveLimit(m, numServos) ==
    IF numServos > 0
    THEN println([m EXCEPT !.activeNumServos = numServos],
                 "Number of active servos set to", <<numServos>>)
    ELSE println(m, "Invalid number of servos.", <<>>)

\* setNumServos after a call of stopAllPlayback
setNumServosStopping(m, numServos) ==
    IF numServos > 0 /\ numServos <= MAX_SERVOS
    THEN println([stopAllPlayback(m) EXCEPT !.activeNumServos = numServos],
                 "Number of active servos set to", <<numServos>>)
    ELSE println(m, "Invalid number of servos.", <<>>)

setNumServos(m, numServos) ==
    IF numServos > 0 /\ numServos <= MAX_SERVOS
    THEN println([m EXCEPT !.activeNumServos = numServos],
                 "Number of active servos set to", <<numServos>>)
    ELSE println(m, "Invalid number of servos.", <<>>)

\* DirectWrite without the assignment of currentAngle
DirectWriteKeepsAngle(m, i, angle) ==
    IF i \in DOMAIN m.playbackInfo
    THEN [setPWM(m, i, angleToPulse(angle)) EXCEPT
             !.playbackInfo[i].state = "IDLE"]
    ELSE [setPWM(m, i, angleToPulse(angle)) EXCEPT
             !.playbackInfo =
                 Put(@, i, ServoPlaybackInfo("IDLE", 0, 0, F(90), FALSE))]

\* the body of both direct-angle handlers for one servo: write the pulse,
\* then record the angle and force the servo to IDLE
DirectWrite(m, i, angle) ==
    LET m1 == setPWM(m, i, angleToPulse(angle))
    IN  IF i \in DOMAIN m1.playbackInfo
        THEN [m1 EXCEPT !.playbackInfo[i].currentAngle = angle,
                        !.playbackInfo[i].state = "IDLE"]
        ELSE [m1 EXCEPT !.playbackInfo =
                 Put(@, i, ServoPlaybackInfo("IDLE", 0, 0, angle, FALSE))]

\* the for loop of setMasterAngle running one channel past the active count
RECURSIVE MasterLoopOneMore(_, _, _)
MasterLoopOneMore(m, i, angle) ==
    IF i <= m.activeNumServos
    THEN MasterLoopOneMore(DirectWrite(m, i, angle), i + 1, angle)
    ELSE m

\* the for loop of setMasterAngle from index i on
RECURSIVE MasterLoop(_, _, _)
MasterLoop(m, i, angle) ==
    IF i < m.activeNumServos
    THEN MasterLoop(DirectWrite(m, i, angle), i + 1, angle)
    ELSE m

\* setMasterAngle without the check of the angle
setMasterAngleUnchecked(m, angle) ==
    println(MasterLoop(m, 0, angle), "All active servos set to", <<angle>>)

setMasterAngle(m, angle) ==
    IF FLeq(F(0), angle) /\ FLeq(angle, F(180))
    THEN println(MasterLoop(m, 0, angle), "All active servos set to",
                 <<angle>>)
    ELSE println(m, "Invalid angle value.", <<>>)

setServoAngle(m, servoId, angle) ==
    IF /\ servoId >= 0
       /\ servoId < m.activeNumServos
       /\ FLeq(F(0), angle)
       /\ FLeq(angle, F(180))
    THEN println(DirectWrite(m, servoId, angle), "Servo set to",
                 <<servoId, angle>>)
    ELSE IF servoId < 0 \/ servoId >= m.activeNumServos
         THEN println(m, "Invalid servo ID.", <<>>)
         ELSE println(m, "Invalid angle value.", <<>>)

\* StoreSequence with the parsed keyframes put behind those already stored
StoreSequenceAppending(m, servoId, r) ==
    IF ~r.ok
    THEN println(m, "LOAD_SEQ Parse Error: Incomplete keyframe data.", <<>>)
    ELSE IF r.sequence /= <<>>
    THEN println([m EXCEPT
                     !.sequences =
                         Put(@, servoId,
                             IF servoId \in DOMAIN @
                             THEN @[servoId] \o r.sequence
                             ELSE r.sequence),
                     !.playbackInfo =
                         IF servoId \notin DOMAIN @
                         THEN Put(@, servoId,
                                  ServoPlaybackInfo("IDLE", 0, 0,
                                                    r.sequence[1].angle,
                                                    FALSE))
                         ELSE [@ EXCEPT ![servoId].currentAngle =
                                            r.sequence[1].angle]],
                 "Loaded sequence for servo", <<servoId, Len(r.sequence)>>)
    ELSE println(m, "LOAD_SEQ Error: No valid keyframes parsed", <<servoId>>)

\* the end of loadSequenceFromString, after the parsing loop left r: the
\* sequence is stored and the servo's current angle reset; the servo's state
\* is written only when it had no playback entry
StoreSequence(m, servoId, r) ==
    IF ~r.ok
    THEN println(m, "LOAD_SEQ Parse Error: Incomplete keyframe data.", <<>>)
    ELSE IF r.sequence /= <<>>
    THEN println([m EXCEPT
                     !.sequences = Put(@, servoId, r.sequence),
                     !.playbackInfo =
                         IF servoId \notin DOMAIN @
                         THEN Put(@, servoId,
                                  ServoPlaybackInfo("IDLE", 0, 0,
                                                    r.sequence[1].angle,
                                                    FALSE))
                         ELSE [@ EXCEPT ![servoId].currentAngle =
                                            r.sequence[1].angle]],
                 "Loaded sequence for servo", <<servoId, Len(r.sequence)>>)
    ELSE println(m, "LOAD_SEQ Error: No valid keyframes parsed", <<servoId>>)

\* loadSequenceFromString without the upper limit on the channel id
loadSequenceAboveLimit(m, servoId, data) ==
    IF servoId < 0
    THEN println(m, "Invalid servo ID for LOAD_SEQ", <<>>)
    ELSE StoreSequence(m, servoId, ParseSequence(data))

loadSequenceFromString(m, servoId, data) ==
    IF servoId < 0 \/ servoId >= MAX_SERVOS
    THEN println(m, "Invalid servo ID for LOAD_SEQ", <<>>)
    ELSE StoreSequence(m, servoId, ParseSequence(data))

\* startPlaybackSingle after its call of stopAllPlayback
StartSingle(m1, servoId, startTime) ==
    println([m1 EXCEPT
                !.playbackInfo =
                    IF servoId \notin DOMAIN @
                    THEN Put(@, servoId,
                             ServoPlaybackInfo("PLAYING", 0, startTime,
                                               m1.sequences[servoId][1].angle,
                                               FALSE))
                    ELSE [@ EXCEPT ![servoId].state = "PLAYING",
                                   ![servoId].currentSegment = 0,
                                   ![servoId].segmentStartTime = startTime,
                                   ![servoId].playingAll = FALSE],
                !.playbackState = "PLAYING"],
            "Starting playback for servo", <<servoId>>)

\* startPlaybackSingle without the call of stopAllPlayback
startPlaybackSingleNoStop(m, servoId, millis) ==
    IF servoId \notin DOMAIN m.sequences \/ Len(m.sequences[servoId]) < 2
    THEN println(m, "Cannot play servo", <<servoId>>)
    ELSE StartSingle(m, servoId, millis)

startPlaybackSingle(m, servoId, millis) ==
    IF servoId \notin DOMAIN m.sequences \/ Len(m.sequences[servoId]) < 2
    THEN println(m, "Cannot play servo", <<servoId>>)
    ELSE StartSingle(stopAllPlayback(m), servoId, millis)

\* Startable without the comparison with the active count
StartableAnyId(m, servoId) ==
    /\ servoId \in DOMAIN m.sequences
    /\ Len(m.sequences[servoId]) >= 2

\* Startable without the test of the number of keyframes
StartableAnyLength(m, servoId) ==
    /\ servoId \in DOMAIN m.sequences
    /\ servoId < m.activeNumServos

\* the test of the for loop of startPlaybackAll
Startable(m, servoId) ==
    /\ servoId \in DOMAIN m.sequences
    /\ servoId < m.activeNumServos
    /\ Len(m.sequences[servoId]) >= 2

\* StartInGroup leaving the group mark of an existing record as it is
StartInGroupKeepsMark(m, info, servoId, currentTime) ==
    IF servoId \notin DOMAIN info
    THEN ServoPlaybackInfo("PLAYING", 0, currentTime,
                           m.sequences[servoId][1].angle, TRUE)
    ELSE [info[servoId] EXCEPT !.state = "PLAYING",
                               !.currentSegment = 0,
                               !.segmentStartTime = currentTime]

\* the body of the for loop of startPlaybackAll for one entry of the store
StartInGroup(m, info, servoId, currentTime) ==
    IF servoId \notin DOMAIN info
    THEN ServoPlaybackInfo("PLAYING", 0, currentTime,
                           m.sequences[servoId][1].angle, TRUE)
    ELSE [info[servoId] EXCEPT !.state = "PLAYING",
                               !.currentSegment = 0,
                               !.segmentStartTime = currentTime,
                               !.playingAll = TRUE]

\* startPlaybackAll after its call of stopAllPlayback: the for loop over the
\* store and the report
StartAll(m1, currentTime) ==
    LET started == {c \in DOMAIN m1.sequences : Startable(m1, c)}
    IN  IF started /= {}
        THEN println([m1 EXCEPT
                         !.playbackInfo =
                             [c \in DOMAIN @ \cup started |->
                                 IF c \in started
                                 THEN StartInGroup(m1, @, c, currentTime)
                                 ELSE @[c]],
                         !.playbackState = "PLAYING"],
                     "Starting playback for all loaded sequences.", <<>>)
        ELSE println(m1, "No valid sequences found for active servos.",
                     <<>>)

startPlaybackAll(m, millis) ==
    IF DOMAIN m.sequences = {}
    THEN println(m, "Cannot PLAY_LOADED: No sequences loaded.", <<>>)
    ELSE StartAll(stopAllPlayback(m), millis)

-----------------------------------------------------------------------------
(* Bezier evaluation and the playback scheduler *)

\* the float (timeDiff > 0 ? timeDiff : 1) * factor of the branch for a control
\* point that does not exist, kept as its two factors
DefaultOffset(kf0, kf1, factor) ==
    LET timeDiff == FloatOfUL(ULSub(kf1.time, kf0.time))
    IN  [span |-> IF timeDiff.v = 0 /\ ~timeDiff.over
                  THEN FloatOfUL(1) ELSE timeDiff,
         factor |-> factor]

\* the float sum that is stored in p1_time or p2_time, kept as its two terms
TimeSum(time, offset) == [base |-> FloatOfUL(time), offset |-> offset]

\* getBezierPointsForSegment with the time offset of an existing outgoing
\* control point added to p1_angle as well
getBezierPointsTimed(m, servoId, segmentIndex) ==
    IF servoId \notin DOMAIN m.sequences THEN [ok |-> FALSE]
    ELSE LET sequence == m.sequences[servoId]
         IN  IF segmentIndex < 0 \/ segmentIndex >= Len(sequence) - 1
             THEN [ok |-> FALSE]
             ELSE LET kf0 == sequence[segmentIndex + 1]
                      kf1 == sequence[segmentIndex + 2]
                      p1 == IF kf0.cp_out.exists
                            THEN FAdd(FAdd(kf0.angle, kf0.cp_out.da),
                                      kf0.cp_out.dt)
                            ELSE kf0.angle
                      p2 == IF kf1.cp_in.exists
                            THEN FAdd(kf1.angle, kf1.cp_in.da)
                            ELSE kf1.angle
                  IN  [ok |-> TRUE,
                       p0_time |-> FloatOfUL(kf0.time),
                       p0_angle |-> kf0.angle,
                       p1_time |-> TimeSum(kf0.time, kf0.cp_out.dt),
                       p1_angle |-> constrain(p1, F(0), F(180)),
                       p2_time |-> TimeSum(kf1.time, kf1.cp_in.dt),
                       p2_angle |-> constrain(p2, F(0), F(180)),
                       p3_time |-> FloatOfUL(kf1.time),
                       p3_angle |-> kf1.angle]

\* getBezierPointsForSegment without the two calls of constrain
getBezierPointsUnclamped(m, servoId, segmentIndex) ==
    IF servoId \notin DOMAIN m.sequences THEN [ok |-> FALSE]
    ELSE LET sequence == m.sequences[servoId]
         IN  IF segmentIndex < 0 \/ segmentIndex >= Len(sequence) - 1
             THEN [ok |-> FALSE]
             ELSE LET kf0 == sequence[segmentIndex + 1]
                      kf1 == sequence[segmentIndex + 2]
                  IN  [ok |-> TRUE,
                       p0_time |-> FloatOfUL(kf0.time),
                       p0_angle |-> kf0.angle,
                       p1_time |-> TimeSum(kf0.time, kf0.cp_out.dt),
                       p1_angle |-> IF kf0.cp_out.exists
                                    THEN FAdd(kf0.angle, kf0.cp_out.da)
                                    ELSE kf0.angle,
                       p2_time |-> TimeSum(kf1.time, kf1.cp_in.dt),
                       p2_angle |-> IF kf1.cp_in.exists
                                    THEN FAdd(kf1.angle, kf1.cp_in.da)
                                    ELSE kf1.angle,
                       p3_time |-> FloatOfUL(kf1.time),
                       p3_angle |-> kf1.angle]

\* getBezierPointsForSegment: the result and `points`; p1_time and p2_time
\* are float sums that no caller reads
getBezierPointsForSegment(m, servoId, segmentIndex) ==
    IF servoId \notin DOMAIN m.sequences THEN [ok |-> FALSE]
    ELSE LET sequence == m.sequences[servoId]
         IN  IF segmentIndex < 0 \/ segmentIndex >= Len(sequence) - 1
             THEN [ok |-> FALSE]
             ELSE LET kf0 == sequence[segmentIndex + 1]
                      kf1 == sequence[segmentIndex + 2]
                      p1 == IF kf0.cp_out.exists
                            THEN FAdd(kf0.angle, kf0.cp_out.da)
                            ELSE kf0.angle
                      p2 == IF kf1.cp_in.exists
                            THEN FAdd(kf1.angle, kf1.cp_in.da)
                            ELSE kf1.angle
                  IN  [ok |-> TRUE,
                       p0_time |-> FloatOfUL(kf0.time),
                       p0_angle |-> kf0.angle,
                       p1_time |->
                           IF kf0.cp_out.exists
                           THEN TimeSum(kf0.time, kf0.cp_out.dt)
                           ELSE TimeSum(kf0.time,
                                        DefaultOffset(kf0, kf1,
                                                      Frac(33, 100))),
                       p1_angle |-> constrain(p1, F(0), F(180)),
                       p2_time |->
                           IF kf1.cp_in.exists
                           THEN TimeSum(kf1.time, kf1.cp_in.dt)
                           ELSE TimeSum(kf1.time,
                                        DefaultOffset(kf0, kf1,
                                                      Frac(-33, 100))),
                       p2_angle |-> constrain(p2, F(0), F(180)),
                       p3_time |-> FloatOfUL(kf1.time),
                       p3_angle |-> kf1.angle]

\* the cubic of bezierAngle at the constrained parameter t, with u = 1 - t
Cubic(t, u, p) ==
    constrain(FAdd(FAdd(FMul(FMul(FMul(u, u), u), p.p0_angle),
                        FMul(FMul(FMul(F(3), FMul(u, u)), t), p.p1_angle)),
                   FAdd(FMul(FMul(FMul(F(3), u), FMul(t, t)), p.p2_angle),
                        FMul(FMul(FMul(t, t), t), p.p3_angle))),
              F(0), F(180))

\* the parameter of bezierAngle after constrain(t, 0, 1)
CubicAt(t, p) == Cubic(t, FSub(F(1), t), p)

\* bezierAngle without constrain(t, 0.0, 1.0)
bezierAngleUnconstrained(t0, p) == CubicAt(t0, p)

bezierAngle(t0, p) == CubicAt(constrain(t0, F(0), F(1)), p)

\* SegmentParameter without the division
SegmentParameterEnd(elapsed, segmentDuration) == F(1)

\* (float)elapsedSinceSegmentStart / (float)segmentDuration for a positive
\* duration, already constrained to [0, 1]
SegmentParameter(elapsed, segmentDuration) ==
    LET fe == FloatOfUL(elapsed)
        fd == FloatOfUL(segmentDuration)
    IN  IF fe.over \/ fe.v < 0 THEN F(1)
        ELSE constrain(Frac(fe.v, fd.v), F(0), F(1))

SetIdle(m, servoId) == [m EXCEPT !.playbackInfo[servoId].state = "IDLE"]

\* EndSegment with the test of the elapsed time never true
EndSegmentNever(m1, servoId, currentTime, points, segmentDuration) == m1

\* the end of the loop body of updatePlayback: m1 holds the interpolated
\* angle; the segment ends when its duration has passed
EndSegment(m1, servoId, currentTime, points, segmentDuration) ==
    LET info == m1.playbackInfo[servoId]
    IN  IF ULGeq(currentTime, ULAdd(info.segmentStartTime, segmentDuration))
        THEN IF info.currentSegment + 1 >= Len(m1.sequences[servoId]) - 1
             THEN println(
                      setPWM([m1 EXCEPT
                                 !.playbackInfo[servoId].currentSegment =
                                     info.currentSegment + 1,
                                 !.playbackInfo[servoId].state = "IDLE",
                                 !.playbackInfo[servoId].currentAngle =
                                     points.p3_angle],
                             servoId, angleToPulse(points.p3_angle)),
                      "Servo finished sequence.", <<servoId>>)
             ELSE [m1 EXCEPT
                      !.playbackInfo[servoId].currentSegment =
                          info.currentSegment + 1,
                      !.playbackInfo[servoId].segmentStartTime = currentTime]
        ELSE m1

\* the loop body of updatePlayback once the angle is computed: the angle is
\* recorded and written to the servo's channel
WriteSegment(m, servoId, currentTime, points, segmentDuration, angle) ==
    EndSegment(setPWM([m EXCEPT !.playbackInfo[servoId].currentAngle = angle],
                      servoId, angleToPulse(angle)),
               servoId, currentTime, points, segmentDuration)

\* the loop body of updatePlayback once segmentDuration (long - long,
\* wrapping) is computed: the angle of the servo at currentTime
TimeSegment(m, servoId, currentTime, points, segmentDuration) ==
    WriteSegment(m, servoId, currentTime, points, segmentDuration,
                 IF segmentDuration <= 0 THEN points.p3_angle
                 ELSE bezierAngle(
                          SegmentParameter(
                              ULSub(currentTime,
                                    m.playbackInfo[servoId].segmentStartTime),
                              segmentDuration),
                          points))

\* the loop body of updatePlayback after getBezierPointsForSegment returned
\* points; ub resolves an out-of-range float conversion
PlaySegment(m, servoId, currentTime, ub, points) ==
    IF ~points.ok
    THEN SetIdle(println(m, "Error getting Bezier points for Servo",
                         <<servoId, m.playbackInfo[servoId].currentSegment>>),
                 servoId)
    ELSE TimeSegment(m, servoId, currentTime, points,
                     ULSub(ULOfFloat(points.p3_time, ub),
                           ULOfFloat(points.p0_time, ub)))

\* the body of the for loop of updatePlayback for a servo that is PLAYING
\* and has a stored sequence
AdvanceServo(m, servoId, currentTime, ub) ==
    IF m.playbackInfo[servoId].currentSegment
           >= Len(m.sequences[servoId]) - 1
    THEN SetIdle(m, servoId)
    ELSE PlaySegment(m, servoId, currentTime, ub,
                     getBezierPointsForSegment(
                         m, servoId, m.playbackInfo[servoId].currentSegment))

\* UpdateServo without the test of the servo's state
UpdateServoAnyState(m, servoId, currentTime, ub) ==
    IF servoId \notin DOMAIN m.sequences THEN SetIdle(m, servoId)
    ELSE AdvanceServo(m, servoId, currentTime, ub)

\* the body of the for loop of updatePlayback for one entry of the
\* playback map
UpdateServo(m, servoId, currentTime, ub) ==
    IF m.playbackInfo[servoId].state /= "PLAYING" THEN m
    ELSE IF servoId \notin DOMAIN m.sequences THEN SetIdle(m, servoId)
    ELSE AdvanceServo(m, servoId, currentTime, ub)

\* the for loop of updatePlayback over the entries not yet visited, in
\* ascending key order
RECURSIVE UpdateLoop(_, _, _, _)
UpdateLoop(m, todo, currentTime, ub) ==
    IF todo = {} THEN m
    ELSE LET servoId == CHOOSE c \in todo : \A e \in todo : c <= e
         IN  UpdateLoop(UpdateServo(m, servoId, currentTime, ub),
                        todo \ {servoId}, currentTime, ub)

\* the end of updatePlayback without the assignment to the global flag
FinishUpdateKeepsFlag(m1) ==
    IF \A c \in DOMAIN m1.playbackInfo : m1.playbackInfo[c].state /= "PLAYING"
    THEN println(m1, "All playback finished.", <<>>)
    ELSE m1

\* the end of updatePlayback, after the for loop left m1
FinishUpdate(m1) ==
    IF \A c \in DOMAIN m1.playbackInfo : m1.playbackInfo[c].state /= "PLAYING"
    THEN println([m1 EXCEPT !.playbackState = "IDLE"],
                 "All playback finished.", <<>>)
    ELSE m1

\* updatePlayback without the test of the global flag
updatePlaybackAnyFlag(m, currentTime, ub) ==
    FinishUpdate(UpdateLoop(m, DOMAIN m.playbackInfo, currentTime, ub))

updatePlayback(m, currentTime, ub) ==
    IF m.playbackState /= "PLAYING" THEN m
    ELSE FinishUpdate(UpdateLoop(m, DOMAIN m.playbackInfo, currentTime, ub))

-----------------------------------------------------------------------------
(* The control loop *)

\* setup() of the two-board firmware when the begin() calls of its boards
\* return board1 and board2: the second board is tried only after the
\* first one has answered
setupBoards(board1, board2) ==
    IF ~board1
    THEN [halted |-> TRUE,
          serial |-> "pca9685 board 1 (0x60) initialisation failed!"]
    ELSE IF ~board2
    THEN [halted |-> TRUE,
          serial |-> "pca9685 board 2 (0x40) initialisation failed!"]
    ELSE [halted |-> FALSE, serial |-> "ready for commands"]

\* loop() runs whatever setup() found
RunningAfterFailure == TRUE

\* loop() runs: setup() has returned
Running == ~halted

\* the state after a handler has run
Commit(m) ==
    /\ g_sequences' = m.sequences
    /\ g_activeNumServos' = m.activeNumServos
    /\ g_playbackState' = m.playbackState
    /\ g_playbackInfo' = m.playbackInfo
    /\ pwm' = m.pwm
    /\ serial' = m.serial
    /\ wasPlaying' = Playing

\* the complete lines readSerialCommands can hand to processCommand that
\* select a handler of the given kinds
Received(kinds) == {i \in Instructions : i.kind \in kinds}

\* what processCommand prints for a line it drops
Rejection(kind) ==
    CASE kind = "INVALID_FORMAT" -> "Invalid command format"
      [] kind = "INVALID_SA" -> "Invalid SA format."
      [] kind = "INVALID_LOAD_SEQ" -> "Invalid LOAD_SEQ format."
      [] OTHER -> "Unknown command type"

\* processCommand as a function of the decoded line: the command actions
\* below are its branches, one action per keyword. MA and SA stop every
\* playback before the angle or the channel id is looked at.
processCommand(m, i, millis) ==
    CASE i.kind = "EMPTY" -> m
      [] i.kind = "STOP" ->
            println(stopAllPlayback(m),
                    "STOP command received - playback halted.", <<>>)
      [] i.kind = "CLEAR_ALL" -> clearAllSequences(m)
      [] i.kind = "PLAY_LOADED" -> startPlaybackAll(m, millis)
      [] i.kind = "NUM_SERVOS" -> setNumServos(m, i.num)
      [] i.kind = "MA" -> setMasterAngle(stopAllPlayback(m), i.angle)
      [] i.kind = "SA" ->
            setServoAngle(stopAllPlayback(m), i.servoId, i.angle)
      [] i.kind = "LOAD_SEQ" ->
            loadSequenceFromString(m, i.servoId, i.data)
      [] i.kind = "PLAY_SERVO" -> startPlaybackSingle(m, i.servoId, millis)
      [] OTHER -> println(m, Rejection(i.kind), <<>>)

\* loop() with a complete line in the buffer: processCommand runs the handler
\* of the line; updatePlayback is not reached in the same step
CmdSTOP ==
    \E i \in Received({"STOP"}) :
        /\ Running
        /\ Commit(println(stopAllPlayback(Memory),
                          "STOP command received - playback halted.", <<>>))
        /\ UNCHANGED <<rawVars, lastUpdateTime, now, halted, ioVars>>

CmdCLEAR_ALL ==
    \E i \in Received({"CLEAR_ALL"}) :
        /\ Running
        /\ Commit(clearAllSequences(Memory))
        /\ UNCHANGED <<rawVars, lastUpdateTime, now, halted, ioVars>>

CmdPLAY_LOADED ==
    \E i \in Received({"PLAY_LOADED"}) :
        /\ Running
        /\ Commit(startPlaybackAll(Memory, now))
        /\ UNCHANGED <<rawVars, lastUpdateTime, now, halted, ioVars>>

CmdNUM_SERVOS ==
    \E i \in Received({"NUM_SERVOS"}) :
        /\ Running
        /\ Commit(setNumServos(Memory, i.num))
        /\ UNCHANGED <<rawVars, lastUpdateTime, now, halted, ioVars>>

CmdMA ==
    \E i \in Received({"MA"}) :
        /\ Running
        /\ Commit(setMasterAngle(stopAllPlayback(Memory), i.angle))
        /\ UNCHANGED <<rawVars, lastUpdateTime, now, halted, ioVars>>

CmdSA ==
    \E i \in Received({"SA"}) :
        /\ Running
        /\ Commit(setServoAngle(stopAllPlayback(Memory), i.servoId, i.angle))
        /\ UNCHANGED <<rawVars, lastUpdateTime, now, halted, ioVars>>

CmdLOAD_SEQ ==
    \E i \in Received({"LOAD_SEQ"}) :
        /\ Running
        /\ Commit(loadSequenceFromString(Memory, i.servoId, i.data))
        /\ UNCHANGED <<rawVars, lastUpdateTime, now, halted, ioVars>>

CmdPLAY_SERVO ==
    \E i \in Received({"PLAY_SERVO"}) :
        /\ Running
        /\ Commit(startPlaybackSingle(Memory, i.servoId, now))
        /\ UNCHANGED <<rawVars, lastUpdateTime, now, halted, ioVars>>

\* lines that processCommand drops: no colon, unknown keyword, SA or
\* LOAD_SEQ without a second field
CmdRejected ==
    \E i \in Received({"INVALID_FORMAT", "INVALID_SA", "INVALID_LOAD_SEQ",
                       "UNKNOWN"}) :
        /\ Running
        /\ Commit(println(Memory, Rejection(i.kind), <<>>))
        /\ UNCHANGED <<rawVars, lastUpdateTime, now, halted, ioVars>>

\* loop() when the update interval has elapsed
Tick ==
    /\ Running
    /\ ULGeq(ULSub(now, lastUpdateTime), UPDATE_INTERVAL_MS)
    /\ lastUpdateTime' = now
    /\ \E ub \in FloatOverflowResults : Commit(updatePlayback(Memory, now, ub))
    /\ UNCHANGED <<rawVars, now, halted, ioVars>>

\* millis() advances between two steps of the loop; nothing has been
\* written or printed yet at the new time
Elapse ==
    \E d \in ClockSteps :
        /\ ULSub(now, SETUP_DELAY_MS) + d
               <= MaxIntervals * UPDATE_INTERVAL_MS
        /\ now' = ULAdd(now, d)
        /\ pwm' = <<>>
        /\ serial' = <<>>
        /\ wasPlaying' = Playing
        /\ UNCHANGED <<rawVars, g_sequences, g_activeNumServos,
                       g_playbackState,
                       g_playbackInfo, lastUpdateTime, halted, ioVars>>

\* the state setup() leaves when pca.begin() returns pcaBegin: the end of
\* setup(), or the endless loop after the failure message, before any
\* servo is written or given a playback record
setup(pcaBegin) ==
    /\ g_sequences = EmptyMap
    /\ g_activeNumServos = DEFAULT_ACTIVE_SERVOS
    /\ g_playbackState = "IDLE"
    /\ g_playbackInfo =
           IF pcaBegin
           THEN [i \in 0..(DEFAULT_ACTIVE_SERVOS - 1) |->
                    ServoPlaybackInfo("IDLE", 0, 0, F(90), FALSE)]
           ELSE EmptyMap
    /\ lastUpdateTime = 0
    /\ now = SETUP_DELAY_MS
    /\ pwm = IF pcaBegin
             THEN [i \in 1..DEFAULT_ACTIVE_SERVOS |->
                      [channel |-> i - 1, pulse |-> angleToPulse(F(90))]]
             ELSE <<>>
    /\ serial = IF pcaBegin
                THEN <<StatusLine("Ready for commands", <<>>)>>
                ELSE <<StatusLine("PCA9685 initialization failed!", <<>>)>>
    /\ wasPlaying = {}
    /\ halted = ~pcaBegin

\* the board runs the sequencer sketch, which has none of the globals of the
\* raw-pulse sketches
SequencerRuns ==
    /\ firmware = "sequencer"
    /\ active_num_servos = 0
    /\ input_buffer = <<>>
    /\ command_ready = FALSE
    /\ boards = <<>>

\* no byte has been sent; the lines reach processCommand whole
WholeLines ==
    /\ inputBuffer = <<>>
    /\ commandComplete = FALSE
    /\ wire = <<>>
    /\ arrived = 0
    /\ consumed = 0
    /\ dispatched = <<>>

Init ==
    /\ \E pcaBegin \in BOOLEAN : setup(pcaBegin) /\ WholeLines
    /\ SequencerRuns

Next ==
    \/ CmdSTOP
    \/ CmdCLEAR_ALL
    \/ CmdPLAY_LOADED
    \/ CmdNUM_SERVOS
    \/ CmdMA
    \/ CmdSA
    \/ CmdLOAD_SEQ
    \/ CmdPLAY_SERVO
    \/ CmdRejected
    \/ Tick
    \/ Elapse

Spec == Init /\ [][Next]_vars

-----------------------------------------------------------------------------
(* The control loop on the byte stream of the serial port *)

NL == "\n"
CR == "\r"

\* a line as the host sends it
Sent(line, ending) == line \o ending

\* a run of lines: a command, an angle out of range behind "\r\n", an
\* unknown keyword, an empty line, a load with an incomplete record, a
\* direct angle, and the start of a line whose newline is not sent
wireMixed ==
    Sent(kwSTOP, <<NL>>)
    \o Sent(Text(kwMA, <<"1", "8", "1">>), <<CR, NL>>)
    \o Sent(Text(<<"S", "a">>, Text(<<"0">>, <<"9", "0">>)), <<NL>>)
    \o <<NL>>
    \o Sent(Text(kwLOAD_SEQ, Text(<<"0">>, txtShortRecord)), <<NL>>)
    \o Sent(Text(kwSA, Text(<<"0">>, <<"4", "5">>)), <<NL>>)
    \o <<"P", "L", "A">>

\* a load, the start of its playback and a stop
wirePlay ==
    Sent(Text(kwLOAD_SEQ, Text(<<"0">>, txtRamp)), <<NL>>)
    \o Sent(Text(kwPLAY_SERVO, <<"0">>), <<CR, NL>>)
    \o Sent(kwSTOP, <<NL>>)

\* a load with angles above and below the range, and the start of its
\* playback
txtClamped ==
    <<"0", ",", "2", "7", "0", ";", "1", "0", ",", "-", "5">>

wireClamped ==
    Sent(Text(kwLOAD_SEQ, Text(<<"0">>, txtClamped)), <<NL>>)
    \o Sent(Text(kwPLAY_SERVO, <<"0">>), <<NL>>)

\* a load whose second keyframe lies before its first, and the start of
\* its playback
wireBackwards ==
    Sent(Text(kwLOAD_SEQ, Text(<<"0">>, txtBackwards)), <<NL>>)
    \o Sent(Text(kwPLAY_SERVO, <<"0">>), <<NL>>)

\* a load for channel 1, the start of its playback, and the active count
\* lowered to 1
wireShrink ==
    Sent(Text(kwLOAD_SEQ, Text(<<"1">>, txtRamp)), <<NL>>)
    \o Sent(Text(kwPLAY_SERVO, <<"1">>), <<NL>>)
    \o Sent(Text(kwNUM_SERVOS, <<"1">>), <<NL>>)

Wires == {wireMixed, wirePlay, wireClamped, wireBackwards, wireShrink}

\* the serial port and the line buffer as readSerialCommands sees them
Port ==
    [inputBuffer |-> inputBuffer, commandComplete |-> commandComplete,
     wire |-> wire, arrived |-> arrived, consumed |-> consumed]

\* the body of the while loop of readSerialCommands for the byte inChar
ReadByte(io, inChar) ==
    [io EXCEPT !.consumed = @ + 1,
               !.commandComplete = IF inChar = NL THEN TRUE ELSE @,
               !.inputBuffer = IF inChar /= NL /\ inChar /= CR
                               THEN Append(@, inChar)
                               ELSE @]

\* readSerialCommands with a loop that goes on behind a newline
RECURSIVE readSerialCommandsPastNewline(_)
readSerialCommandsPastNewline(io) ==
    IF io.arrived - io.consumed > 0
    THEN readSerialCommandsPastNewline(
             ReadByte(io, io.wire[io.consumed + 1]))
    ELSE io

RECURSIVE readSerialCommands(_)
readSerialCommands(io) ==
    IF io.arrived - io.consumed > 0 /\ ~io.commandComplete
    THEN readSerialCommands(ReadByte(io, io.wire[io.consumed + 1]))
    ELSE io

\* loop() from the reading of millis() on, after the command, if any, left
\* m1
LoopUpdate(m1) ==
    IF ULGeq(ULSub(now, lastUpdateTime), UPDATE_INTERVAL_MS)
    THEN /\ lastUpdateTime' = now
         /\ \E ub \in FloatOverflowResults :
                Commit(updatePlayback(m1, now, ub))
    ELSE /\ Commit(m1)
         /\ UNCHANGED lastUpdateTime

\* loop() after readSerialCommands left io
LoopCommand(io) ==
    /\ consumed' = io.consumed
    /\ commandComplete' = FALSE
    /\ inputBuffer' = IF io.commandComplete THEN <<>> ELSE io.inputBuffer
    /\ dispatched' = IF io.commandComplete
                     THEN Append(dispatched, io.inputBuffer)
                     ELSE dispatched
    /\ LoopUpdate(IF io.commandComplete
                  THEN processCommand(Memory, Decode(io.inputBuffer), now)
                  ELSE Memory)

\* one pass of loop()
Loop ==
    /\ Running
    /\ LoopCommand(readSerialCommands(Port))
    /\ UNCHANGED <<rawVars, now, halted, wire, arrived>>

\* the next byte of the host reaches the serial port
Arrive ==
    /\ arrived < Len(wire)
    /\ arrived' = arrived + 1
    /\ UNCHANGED <<rawVars, g_sequences, g_activeNumServos,
                   g_playbackState,
                   g_playbackInfo, lastUpdateTime, now, pwm, serial,
                   wasPlaying, halted, inputBuffer, commandComplete, wire,
                   consumed, dispatched>>

\* the state at the end of setup(), with the bytes the host is going to send
InitIO ==
    /\ \E pcaBegin \in BOOLEAN : setup(pcaBegin)
    /\ wire \in Wires
    /\ inputBuffer = <<>>
    /\ commandComplete = FALSE
    /\ arrived = 0
    /\ consumed = 0
    /\ dispatched = <<>>
    /\ SequencerRuns

NextIO ==
    \/ Loop
    \/ Arrive
    \/ Elapse

SpecIO == InitIO /\ [][NextIO]_vars

-----------------------------------------------------------------------------
(* Playback left to run: the lines of a scenario have been dispatched, and  *)
(* loop() goes on without further input                                     *)

\* the longest time between two calls of updatePlayback, in update intervals
MaxLate == 2

\* the clock is followed for this many update intervals after setup()
MaxPlayIntervals == 110

\* millis() is read every 5 or 10 ms
PlayClockSteps == {5, 10}

\* "0,90;1000,150"
txtSlowRamp ==
    <<"0", ",", "9", "0", ";", "1", "0", "0", "0", ",", "1", "5", "0">>

\* "0,0,,,10,40;50,100,-10,-20;120,30": an outgoing control point on the
\* first keyframe and an incoming one on the second
txtCurve ==
    <<"0", ",", "0", ",", ",", ",", "1", "0", ",", "4", "0", ";",
      "5", "0", ",", "1", "0", "0", ",", "-", "1", "0", ",", "-", "2", "0", ";",
      "1", "2", "0", ",", "3", "0">>

\* a ramp of one second played on its own
playSlowRamp ==
    <<Text(kwLOAD_SEQ, Text(<<"0">>, txtSlowRamp)),
      Text(kwPLAY_SERVO, <<"0">>)>>

\* a ramp of two update intervals played on its own
playRamp ==
    <<Text(kwLOAD_SEQ, Text(<<"1">>, txtRamp)),
      Text(kwPLAY_SERVO, <<"1">>)>>

\* a sequence with a segment of no duration and a curve of two segments,
\* played together
playGroup ==
    <<Text(kwLOAD_SEQ, Text(<<"0">>, txtThree)),
      Text(kwLOAD_SEQ, Text(<<"1">>, txtCurve)),
      kwPLAY_LOADED>>

\* "0,170,,,5,40;40,10,-5,-40": control points whose angle offsets lead
\* above 180 and below 0
txtOvershoot ==
    <<"0", ",", "1", "7", "0", ",", ",", ",", "5", ",", "4", "0", ";",
      "4", "0", ",", "1", "0", ",", "-", "5", ",", "-", "4", "0">>

\* a curve with control points outside the servo range played on its own
playOvershoot ==
    <<Text(kwLOAD_SEQ, Text(<<"1">>, txtOvershoot)),
      Text(kwPLAY_SERVO, <<"1">>)>>

Scenarios == {playSlowRamp, playRamp, playGroup, playOvershoot}

\* the bytes of the lines, each followed by a newline
RECURSIVE SentAll(_)
SentAll(lines) ==
    IF lines = <<>> THEN <<>>
    ELSE Sent(Head(lines), <<NL>>) \o SentAll(Tail(lines))

\* setup() has succeeded and the bytes of a scenario wait in the serial
\* buffer
InitPlay ==
    /\ setup(TRUE)
    /\ wire \in {SentAll(sc) : sc \in Scenarios}
    /\ arrived = Len(wire)
    /\ inputBuffer = <<>>
    /\ commandComplete = FALSE
    /\ consumed = 0
    /\ dispatched = <<>>
    /\ SequencerRuns

\* millis() advances while lines wait or playback is in progress, and
\* loop() calls updatePlayback at most MaxLate intervals after the previous
\* call
ElapsePlay ==
    \E d \in PlayClockSteps :
        /\ g_playbackState = "PLAYING" \/ consumed < arrived
        /\ ULSub(now, lastUpdateTime) + d <= MaxLate * UPDATE_INTERVAL_MS
        /\ ULSub(now, SETUP_DELAY_MS) + d
               <= MaxPlayIntervals * UPDATE_INTERVAL_MS
        /\ now' = ULAdd(now, d)
        /\ pwm' = <<>>
        /\ serial' = <<>>
        /\ wasPlaying' = Playing
        /\ UNCHANGED <<rawVars, g_sequences, g_activeNumServos,
                       g_playbackState,
                       g_playbackInfo, lastUpdateTime, halted, ioVars>>

NextPlay ==
    \/ Loop
    \/ ElapsePlay

\* weak fairness of the passes of loop() that call updatePlayback,
\* WF_vars(Loop /\ lastUpdateTime' /= lastUpdateTime), written out: such a
\* pass is possible exactly when loop() runs and the update interval has
\* elapsed
TickFair ==
    \/ []<>(~(Running
                /\ ULGeq(ULSub(now, lastUpdateTime), UPDATE_INTERVAL_MS)))
    \/ []<><<Loop /\ lastUpdateTime' /= lastUpdateTime>>_vars

\* weak fairness of the passes of loop() that read the serial buffer,
\* WF_vars(Loop /\ consumed' /= consumed), written out: such a pass is
\* possible exactly when loop() runs and a byte waits
ReadFair ==
    \/ []<>(~(Running /\ consumed < arrived))
    \/ []<><<Loop /\ consumed' /= consumed>>_vars

\* loop() is called again and again, so waiting bytes are read and a due
\* updatePlayback is run, and the clock keeps advancing
SpecPlay ==
    /\ InitPlay
    /\ [][NextPlay]_vars
    /\ TickFair
    /\ ReadFair
    /\ WF_vars(ElapsePlay)

-----------------------------------------------------------------------------
(* Playback shortly before millis() wraps: the device has idled since       *)
(* setup(), for a little less than 2^32 ms                                  *)

\* the reading of millis() four update intervals before it wraps to 0
LateEpoch == ULSub(0, 4 * UPDATE_INTERVAL_MS)

\* nothing is loaded, the last call of updatePlayback has just returned,
\* and the bytes of a scenario wait in the serial buffer
InitLate ==
    /\ g_sequences = EmptyMap
    /\ g_activeNumServos = DEFAULT_ACTIVE_SERVOS
    /\ g_playbackState = "IDLE"
    /\ g_playbackInfo = [i \in 0..(DEFAULT_ACTIVE_SERVOS - 1) |->
                            ServoPlaybackInfo("IDLE", 0, 0, F(90), FALSE)]
    /\ lastUpdateTime = LateEpoch
    /\ now = LateEpoch
    /\ pwm = <<>>
    /\ serial = <<>>
    /\ wasPlaying = {}
    /\ halted = FALSE
    /\ wire \in {SentAll(sc) : sc \in Scenarios}
    /\ arrived = Len(wire)
    /\ inputBuffer = <<>>
    /\ commandComplete = FALSE
    /\ consumed = 0
    /\ dispatched = <<>>
    /\ SequencerRuns

\* ElapsePlay, with the clock followed from LateEpoch
ElapseLate ==
    \E d \in PlayClockSteps :
        /\ g_playbackState = "PLAYING" \/ consumed < arrived
        /\ ULSub(now, lastUpdateTime) + d <= MaxLate * UPDATE_INTERVAL_MS
        /\ ULSub(now, LateEpoch) + d
               <= MaxPlayIntervals * UPDATE_INTERVAL_MS
        /\ now' = ULAdd(now, d)
        /\ pwm' = <<>>
        /\ serial' = <<>>
        /\ wasPlaying' = Playing
        /\ UNCHANGED <<rawVars, g_sequences, g_activeNumServos,
                       g_playbackState,
                       g_playbackInfo, lastUpdateTime, halted, ioVars>>

NextLate ==
    \/ Loop
    \/ ElapseLate

SpecLate == InitLate /\ [][NextLate]_vars

-----------------------------------------------------------------------------
(* The raw-pulse sketches: SP:<id>:<pulse> and NUM_SERVOS:<n> on one board  *)
(* or on two boards                                                         *)

\* MAX_SERVOS of the sketch for one board
MAX_SERVOS_ONE_BOARD == 25

\* the channels of one board
BOARD_CHANNELS == 16

kwSP == <<"S", "P">>

\* setup() of the sketch for one board when pca.begin() returns board
setupBoard(board) ==
    IF ~board
    THEN [halted |-> TRUE, serial |-> "pca9685 initialisation failed!"]
    ELSE [halted |-> FALSE, serial |-> "ready for commands"]

\* setup() of the sketch fw
RawSetup(fw, board1, board2) ==
    IF fw = "two_boards" THEN setupBoards(board1, board2)
    ELSE setupBoard(board1)

\* String::startsWith
startsWith(s, prefix) ==
    Len(s) >= Len(prefix) /\ SubSeq(s, 1, Len(prefix)) = prefix

\* MAX_SERVOS of the sketch that runs
MaxServosOf(fw) ==
    IF fw = "two_boards" THEN MAX_SERVOS ELSE MAX_SERVOS_ONE_BOARD

\* the setPWM call of handle_servo_pulse_command: on the board servo_id / 16
\* with the channel servo_id % 16 in the sketch for two boards, on the one
\* board with the channel servo_id otherwise
BoardWrite(fw, servo_id, pulse_width) ==
    IF fw = "two_boards"
    THEN [board |-> servo_id \div BOARD_CHANNELS,
          channel |-> servo_id % BOARD_CHANNELS, pulse |-> pulse_width]
    ELSE [board |-> 0, channel |-> servo_id, pulse |-> pulse_width]

\* the range test with a pulse width of 4096 let through
PulseCommandInRangeLoose(fw, servo_id, pulse_width) ==
    /\ servo_id >= 0
    /\ servo_id < MaxServosOf(fw)
    /\ pulse_width >= 0
    /\ pulse_width <= 4096

\* the range test of handle_servo_pulse_command
PulseCommandInRange(fw, servo_id, pulse_width) ==
    /\ servo_id >= 0
    /\ servo_id < MaxServosOf(fw)
    /\ pulse_width >= 0
    /\ pulse_width <= 4095

\* handle_servo_pulse_command: the setPWM calls it makes
handle_servo_pulse_command(fw, command) ==
    LET first_colon == indexOfFrom(command, ":", 3)
    IN  IF first_colon = -1 THEN <<>>
        ELSE IF PulseCommandInRange(
                    fw, toInt(substring(command, 3, first_colon)),
                    toInt(substringFrom(command, first_colon + 1)))
        THEN <<BoardWrite(fw, toInt(substring(command, 3, first_colon)),
                          toInt(substringFrom(command, first_colon + 1)))>>
        ELSE <<>>

\* handle_servo_count_command on the globals g: the count and the print
handle_servo_count_command(g, command) ==
    LET num == toInt(substringFrom(command, 11))
    IN  IF num >= 1 /\ num <= MaxServosOf(g.firmware)
        THEN [g EXCEPT !.active_num_servos = num,
                       !.serial = <<StatusLine("active servos set to",
                                               <<num>>)>>]
        ELSE g

\* process_command on the globals g
process_command(g, command) ==
    IF startsWith(trim(command), Text(kwSP, <<>>))
    THEN [g EXCEPT !.boards =
             handle_servo_pulse_command(g.firmware, trim(command))]
    ELSE IF startsWith(trim(command), Text(kwNUM_SERVOS, <<>>))
    THEN handle_servo_count_command(g, trim(command))
    ELSE g

\* the globals of the sketch before a pass of loop(), with no output yet
RawGlobals ==
    [firmware |-> firmware, active_num_servos |-> active_num_servos,
     boards |-> <<>>, serial |-> <<>>]

\* the serial port and the line buffer as read_serial_input sees them
RawPort ==
    [input_buffer |-> input_buffer, command_ready |-> command_ready,
     wire |-> wire, arrived |-> arrived, consumed |-> consumed]

\* the body of the while loop of read_serial_input for the byte incoming_char
RawReadByte(io, incoming_char) ==
    IF incoming_char = NL \/ incoming_char = CR
    THEN [io EXCEPT !.consumed = @ + 1,
                    !.command_ready =
                        IF Len(io.input_buffer) > 0 THEN TRUE ELSE @]
    ELSE [io EXCEPT !.consumed = @ + 1,
                    !.input_buffer = Append(@, incoming_char)]

\* read_serial_input: the port is drained
RECURSIVE read_serial_input(_)
read_serial_input(io) ==
    IF io.arrived - io.consumed > 0
    THEN read_serial_input(RawReadByte(io, io.wire[io.consumed + 1]))
    ELSE io

\* the globals after the command, if any, has been processed
RawCommit(g) ==
    /\ active_num_servos' = g.active_num_servos
    /\ boards' = g.boards
    /\ serial' = g.serial

\* loop() after read_serial_input left io
RawLoopCommand(io) ==
    /\ consumed' = io.consumed
    /\ command_ready' = FALSE
    /\ input_buffer' = IF io.command_ready THEN <<>> ELSE io.input_buffer
    /\ dispatched' = IF io.command_ready
                     THEN Append(dispatched, io.input_buffer)
                     ELSE dispatched
    /\ RawCommit(IF io.command_ready
                 THEN process_command(RawGlobals, io.input_buffer)
                 ELSE RawGlobals)

\* one pass of loop() of a raw-pulse sketch
RawLoop ==
    /\ Running
    /\ firmware /= "sequencer"
    /\ RawLoopCommand(read_serial_input(RawPort))
    /\ UNCHANGED <<g_sequences, g_activeNumServos, g_playbackState,
                   g_playbackInfo, lastUpdateTime, now, pwm, wasPlaying,
                   halted, inputBuffer, commandComplete, wire, arrived,
                   firmware>>

\* "SP:0:100\nSP:17:200\n": two commands back to back
rawBurst ==
    Sent(Text(kwSP, Text(<<"0">>, <<"1", "0", "0">>)), <<NL>>)
    \o Sent(Text(kwSP, Text(<<"1", "7">>, <<"2", "0", "0">>)), <<NL>>)

\* "NUM_SERVOS:4\r\nSP:20:1\n": the count lowered, then a channel above it
rawCount ==
    Sent(Text(kwNUM_SERVOS, <<"4">>), <<CR, NL>>)
    \o Sent(Text(kwSP, Text(<<"2", "0">>, <<"1">>)), <<NL>>)

\* "SP:32:9\nSP:1:4096\n\nSP:31:4095\n": ids and pulses at the limits
rawLimits ==
    Sent(Text(kwSP, Text(<<"3", "2">>, <<"9">>)), <<NL>>)
    \o Sent(Text(kwSP, Text(<<"1">>, <<"4", "0", "9", "6">>)),
            <<NL, NL>>)
    \o Sent(Text(kwSP, Text(<<"3", "1">>, <<"4", "0", "9", "5">>)),
            <<NL>>)

RawWires == {rawBurst, rawCount, rawLimits}

\* the state setup() of a raw-pulse sketch leaves, with the bytes the host is
\* going to send
InitRaw ==
    /\ firmware \in {"one_board", "two_boards"}
    /\ \E board1, board2 \in BOOLEAN :
           /\ halted = RawSetup(firmware, board1, board2).halted
           /\ serial = <<StatusLine(
                            RawSetup(firmware, board1, board2).serial, <<>>)>>
    /\ active_num_servos = MaxServosOf(firmware)
    /\ input_buffer = <<>>
    /\ command_ready = FALSE
    /\ boards = <<>>
    /\ wire \in RawWires
    /\ arrived = 0
    /\ consumed = 0
    /\ dispatched = <<>>
    /\ g_sequences = EmptyMap
    /\ g_activeNumServos = DEFAULT_ACTIVE_SERVOS
    /\ g_playbackState = "IDLE"
    /\ g_playbackInfo = EmptyMap
    /\ lastUpdateTime = 0
    /\ now = SETUP_DELAY_MS
    /\ pwm = <<>>
    /\ wasPlaying = {}
    /\ inputBuffer = <<>>
    /\ commandComplete = FALSE

NextRaw ==
    \/ RawLoop
    \/ Arrive

SpecRaw == InitRaw /\ [][NextRaw]_vars

-----------------------------------------------------------------------------
(* Properties.  The latest step is read off its output: a command handler   *)
(* always prints, its last line names its outcome, and only updatePlayback  *)
(* moves lastUpdateTime.                                                     *)

\* the last status line of the latest step is `text`
Reported(text) == serial /= <<>> /\ serial[Len(serial)].text = text

\* the numbers printed in the last status line of the latest step
ReportedArgs == serial[Len(serial)].args

\* the channels the latest step wrote a pulse to
Written == {pwm[k].channel : k \in 1..Len(pwm)}

\* updatePlayback is due
TickDue == ULGeq(ULSub(now, lastUpdateTime), UPDATE_INTERVAL_MS)

\* C1: in every reachable state every PLAYING channel has a stored sequence
\* and its currentSegment indexes a keyframe pair of that sequence
\* (0 <= currentSegment < size - 1), also right after a LOAD_SEQ that
\* replaces the sequence of a PLAYING channel.
C1_PlayingIndexesKeyframePair ==
    \A c \in Playing :
        /\ c \in DOMAIN g_sequences
        /\ g_playbackInfo[c].currentSegment >= 0
        /\ g_playbackInfo[c].currentSegment < Len(g_sequences[c]) - 1

\* C2: after a successful LOAD_SEQ for channel c, channel c is IDLE and its
\* currentAngle is the angle of the first keyframe loaded, whatever its state
\* was before.
C2_LoadLeavesChannelIdle ==
    Reported("Loaded sequence for servo") =>
        /\ g_playbackInfo[ReportedArgs[1]].state = "IDLE"
        /\ g_playbackInfo[ReportedArgs[1]].currentAngle
               = g_sequences[ReportedArgs[1]][1].angle

\* C3: once SA:<id>:<angle> has been carried out (id inside the active
\* count, angle in [0, 180]), channel id is IDLE with currentAngle = angle,
\* and a scheduler tick taken next leaves it IDLE with that angle and writes
\* no pulse to it.
C3_DirectAngleSurvivesTick ==
    [][Reported("Servo set to") =>
          /\ g_playbackInfo[ReportedArgs[1]].state = "IDLE"
          /\ g_playbackInfo[ReportedArgs[1]].currentAngle = ReportedArgs[2]
          /\ lastUpdateTime' /= lastUpdateTime =>
                /\ g_playbackInfo'[ReportedArgs[1]].state = "IDLE"
                /\ g_playbackInfo'[ReportedArgs[1]].currentAngle
                       = ReportedArgs[2]
                /\ ReportedArgs[1] \notin Written']_vars

\* SA has just been carried out on a channel that was PLAYING as one of a
\* group of several, and a scheduler tick is due
C3_Witness ==
    /\ Reported("Servo set to")
    /\ ReportedArgs[1] \in wasPlaying
    /\ g_playbackInfo[ReportedArgs[1]].playingAll
    /\ Cardinality(wasPlaying) >= 2
    /\ TickDue

\* C4: a scheduler tick writes pulses only to channels that are PLAYING when
\* it starts; SA leaves its channel, and MA every active channel, not
\* PLAYING; and a channel becomes PLAYING only in a step that carries out
\* PLAY_SERVO or PLAY_LOADED.
C4_OneAngleSource ==
    [][/\ lastUpdateTime' /= lastUpdateTime => Written' \subseteq Playing
       /\ Reported("Servo set to")' => ReportedArgs'[1] \notin Playing'
       /\ Reported("All active servos set to")' =>
              \A c \in Playing' : c >= g_activeNumServos'
       /\ Playing' \ Playing /= {} =>
              \/ Reported("Starting playback for servo")'
              \/ Reported("Starting playback for all loaded sequences.")'
      ]_vars

\* a scheduler tick has just written to another channel while a channel that
\* SA set to 45 degrees, and that has a playable sequence, was IDLE
C4_Witness ==
    /\ serial = <<>>
    /\ pwm /= <<>>
    /\ \E c \in DOMAIN g_sequences \ wasPlaying :
           /\ Len(g_sequences[c]) >= 2
           /\ c \in DOMAIN g_playbackInfo
           /\ g_playbackInfo[c].currentAngle = F(45)
           /\ c \notin Written

\* C5: after a successful PLAY_SERVO:c exactly channel c is PLAYING, at
\* currentSegment 0 with segmentStartTime equal to the clock; every other
\* channel is IDLE, and the global flag is PLAYING.
C5_PlayServoStartsExactlyOne ==
    Reported("Starting playback for servo") =>
        /\ Playing = {ReportedArgs[1]}
        /\ g_playbackInfo[ReportedArgs[1]].currentSegment = 0
        /\ g_playbackInfo[ReportedArgs[1]].segmentStartTime = now
        /\ g_playbackState = "PLAYING"

\* PLAY_SERVO:c has just succeeded while another channel was PLAYING
C5_Witness ==
    /\ Reported("Starting playback for servo")
    /\ wasPlaying \ {ReportedArgs[1]} /= {}

\* C6: after PLAY_SERVO:c is rejected (no stored sequence, or fewer than 2
\* keyframes) channel c is IDLE, from every reachable state.
C6_RejectedPlayLeavesIdle ==
    Reported("Cannot play servo") => ReportedArgs[1] \notin Playing

\* the channels PLAY_LOADED is to start: inside the active count, with a
\* stored sequence of at least 2 keyframes
Qualifying ==
    {c \in DOMAIN g_sequences :
        c < g_activeNumServos /\ Len(g_sequences[c]) >= 2}

\* C7: after PLAY_LOADED with a non-empty store the PLAYING channels are
\* exactly the qualifying ones, and the global flag is PLAYING iff there is
\* one.
C7_PlayLoadedStartsQualifying ==
    (\/ Reported("Starting playback for all loaded sequences.")
     \/ Reported("No valid sequences found for active servos.")) =>
        /\ Playing = Qualifying
        /\ (g_playbackState = "PLAYING") <=> (Qualifying /= {})

\* PLAY_LOADED has just started a channel and skipped one that has a
\* sequence of 2 keyframes, was PLAYING, and lies outside the active count
C7_Witness ==
    /\ Reported("Starting playback for all loaded sequences.")
    /\ \E c \in wasPlaying :
           /\ c \in DOMAIN g_sequences
           /\ Len(g_sequences[c]) >= 2
           /\ c >= g_activeNumServos

\* C8: a PLAY_LOADED that finds no qualifying channel changes no channel's
\* playback record and keeps the global flag, even when a channel is PLAYING.
C8_PlayLoadedWithoutQualifyingIsNoOp ==
    [][Reported("No valid sequences found for active servos.")' =>
          /\ g_playbackInfo' = g_playbackInfo
          /\ g_playbackState' = g_playbackState]_vars

\* the positions of the record separators of a payload
Separators(data) == {k \in 1..Len(data) : data[k] = ";"}

\* the records of a payload: each piece between two separators or an end of
\* the payload, as <<position before it, position after it>>; nothing after
\* a final separator is not a record
Records(data) ==
    {r \in (Separators(data) \cup {0})
               \X (Separators(data) \cup {Len(data) + 1}) :
        /\ r[1] < r[2]
        /\ \A k \in Separators(data) : ~(r[1] < k /\ k < r[2])
        /\ ~(r[2] = Len(data) + 1 /\ r[1] + 1 = r[2])}

\* the positions of the field separators of record r
Commas(data, r) == {k \in (r[1] + 1)..(r[2] - 1) : data[k] = ","}

\* some record has fewer than 2 comma-separated fields
HasShortRecord(data) == \E r \in Records(data) : Commas(data, r) = {}

\* the handler that ran to m changed no sequence, no playback record, not
\* the global flag, not the active count, and wrote no pulse
NoEffect(m) ==
    /\ m.sequences = g_sequences
    /\ m.playbackInfo = g_playbackInfo
    /\ m.playbackState = g_playbackState
    /\ m.activeNumServos = g_activeNumServos
    /\ m.pwm = <<>>

\* C9: in every reachable state, a LOAD_SEQ whose payload has a record of
\* fewer than 2 comma-separated fields (an empty record between two ';'
\* included) changes nothing: the stored sequences, every channel's playback
\* record and the global flag stay as they are.
C9_ShortRecordAbortsLoad ==
    \A i \in Received({"LOAD_SEQ"}) :
        HasShortRecord(i.data) =>
            NoEffect(loadSequenceFromString(Memory, i.servoId, i.data))

\* such a load has just been refused for a channel that is PLAYING its
\* stored sequence
C9_Witness ==
    /\ Reported("LOAD_SEQ Parse Error: Incomplete keyframe data.")
    /\ \E i \in Received({"LOAD_SEQ"}) :
           /\ HasShortRecord(i.data)
           /\ i.servoId \in Playing
           /\ i.servoId \in wasPlaying
           /\ i.servoId \in DOMAIN g_sequences

\* the characters of a decimal number
NumberChars == {Digits[k] : k \in 1..Len(Digits)} \cup {".", "-", "+", " "}

\* some record has a second field with a character no number has
HasNonNumericAngle(data) ==
    \E r \in Records(data) :
        \E c1 \in Commas(data, r) :
            /\ \A k \in Commas(data, r) : c1 <= k
            /\ \E k \in (c1 + 1)..(r[2] - 1) :
                   /\ \A c2 \in Commas(data, r) : c2 = c1 \/ k < c2
                   /\ data[k] \notin NumberChars

\* the handler that ran to m stored no sequence and did not report one
\* loaded
LoadRefused(m) ==
    /\ m.sequences = g_sequences
    /\ m.serial /= <<>>
    /\ m.serial[Len(m.serial)].text /= "Loaded sequence for servo"

\* C10: in every reachable state, a LOAD_SEQ whose payload has a record with
\* a non-numeric angle field is a load error: the stored sequences stay as
\* they are and no sequence is reported loaded.
C10_NonNumericAngleIsLoadError ==
    \A i \in Received({"LOAD_SEQ"}) :
        HasNonNumericAngle(i.data) =>
            LoadRefused(loadSequenceFromString(Memory, i.servoId, i.data))

\* the last line the handler that ran to m printed
LastReport(m) == m.serial[Len(m.serial)].text

\* C11: in every reachable state, a LOAD_SEQ whose channel id is outside
\* [0, MAX_SERVOS) is rejected and changes nothing (stored sequences, every
\* channel's playback record, the global flag, the active count, no pulse
\* written), while a LOAD_SEQ of a well-formed payload whose channel id is
\* inside [0, MAX_SERVOS) but at or above the active count is accepted: its
\* keyframes are stored for that channel.
C11_LoadChannelIdRange ==
    \A i \in Received({"LOAD_SEQ"}) :
        /\ (i.servoId < 0 \/ i.servoId >= MAX_SERVOS) =>
               /\ NoEffect(loadSequenceFromString(Memory, i.servoId, i.data))
               /\ LastReport(loadSequenceFromString(Memory, i.servoId, i.data))
                      = "Invalid servo ID for LOAD_SEQ"
        /\ ( /\ i.servoId \in 0..(MAX_SERVOS - 1)
             /\ i.servoId >= g_activeNumServos
             /\ i.data \in GoodPayloads ) =>
               /\ LastReport(loadSequenceFromString(Memory, i.servoId, i.data))
                      = "Loaded sequence for servo"
               /\ i.servoId \in
                      DOMAIN loadSequenceFromString(Memory, i.servoId,
                                                    i.data).sequences
               /\ loadSequenceFromString(Memory, i.servoId,
                                         i.data).sequences[i.servoId]
                      = ParseSequence(i.data).sequence

\* a load for a channel id outside [0, MAX_SERVOS) has just been rejected
\* while a channel is PLAYING, and a channel at or above the active count
\* holds a sequence loaded earlier
C11_Witness ==
    /\ Reported("Invalid servo ID for LOAD_SEQ")
    /\ Playing /= {}
    /\ wasPlaying = Playing
    /\ \E id \in DOMAIN g_sequences : id >= g_activeNumServos

\* the angle is outside [0, 180]
AngleOutOfRange(angle) == FLt(angle, F(0)) \/ FLt(F(180), angle)

\* the MA or SA line i violates a range in the current state: its angle is
\* outside [0, 180], or the channel id of SA is outside [0, active count)
RangeViolation(i) ==
    \/ i.kind = "MA" /\ AngleOutOfRange(i.angle)
    \/ /\ i.kind = "SA"
       /\ \/ AngleOutOfRange(i.angle)
          \/ i.servoId < 0
          \/ i.servoId >= g_activeNumServos

\* the current angle of every channel that has a playback record
CurrentAngles(info) == [c \in DOMAIN info |-> info[c].currentAngle]

\* C12: in every reachable state, an MA or SA line that violates a range
\* (angle outside [0, 180], or SA channel id outside [0, active count))
\* writes no pulse and changes no channel's current angle.
C12_RejectedAngleWritesNothing ==
    \A i \in Received({"MA", "SA"}) :
        RangeViolation(i) =>
            /\ processCommand(Memory, i, now).pwm = <<>>
            /\ CurrentAngles(processCommand(Memory, i, now).playbackInfo)
                   = CurrentAngles(g_playbackInfo)

\* an MA or SA has just been rejected for its angle, after a direct command
\* had moved a channel away from the angle of setup
C12_Witness ==
    /\ Reported("Invalid angle value.")
    /\ pwm = <<>>
    /\ \E c \in DOMAIN g_playbackInfo : g_playbackInfo[c].currentAngle = F(45)

\* the channel c is as far in its playback after the handler that ran to m
\* as it was before
KeepsPlaying(m, c) ==
    /\ m.playbackInfo[c].state = "PLAYING"
    /\ m.playbackInfo[c].currentSegment = g_playbackInfo[c].currentSegment
    /\ m.playbackInfo[c].segmentStartTime
           = g_playbackInfo[c].segmentStartTime

\* C13: in every reachable state, an MA or SA line that is rejected for a
\* range violation (angle outside [0, 180], or SA channel id outside
\* [0, active count)) leaves every PLAYING channel PLAYING with the same
\* currentSegment and segmentStartTime, and leaves the global flag as it is.
C13_RejectedAngleKeepsPlayback ==
    \A i \in Received({"MA", "SA"}) :
        RangeViolation(i) =>
            /\ processCommand(Memory, i, now).playbackState = g_playbackState
            /\ \A c \in Playing :
                   KeepsPlaying(processCommand(Memory, i, now), c)

\* the channels a carried-out MA or SA line i addresses
Addressed(i) ==
    IF i.kind = "SA" THEN {i.servoId} ELSE 0..(g_activeNumServos - 1)

\* C14: in every reachable state, an MA or SA line that violates no range
\* changes the playback state of the channels it addresses only (channel id
\* for SA, the channels inside the active count for MA): every other channel
\* that is PLAYING keeps playing.
C14_DirectAngleStopsAddressedOnly ==
    \A i \in Received({"MA", "SA"}) :
        ~RangeViolation(i) =>
            \A c \in Playing \ Addressed(i) :
                KeepsPlaying(processCommand(Memory, i, now), c)

\* the handler that ran to m left every channel IDLE and the global flag
\* IDLE
AllIdle(m) ==
    /\ m.playbackState = "IDLE"
    /\ \A c \in DOMAIN m.playbackInfo : m.playbackInfo[c].state = "IDLE"

\* the channel c is PLAYING at segment 0 in m
PlaysFromStart(m, c) ==
    /\ c \in DOMAIN m.playbackInfo
    /\ m.playbackInfo[c].state = "PLAYING"
    /\ m.playbackInfo[c].currentSegment = 0

\* C15: in every reachable state, STOP leaves every channel IDLE and the
\* global flag IDLE, and leaves the stored sequences, every channel's
\* current angle and the active count as they are and writes no pulse; a
\* PLAY_SERVO or PLAY_LOADED that follows it starts the stored sequences of
\* at least 2 keyframes from segment 0.
C15_StopHaltsAndKeepsStore ==
    \A i \in Received({"STOP"}) :
        /\ AllIdle(processCommand(Memory, i, now))
        /\ processCommand(Memory, i, now).sequences = g_sequences
        /\ processCommand(Memory, i, now).activeNumServos = g_activeNumServos
        /\ processCommand(Memory, i, now).pwm = <<>>
        /\ CurrentAngles(processCommand(Memory, i, now).playbackInfo)
               = CurrentAngles(g_playbackInfo)
        /\ \A c \in DOMAIN g_sequences :
               Len(g_sequences[c]) >= 2 =>
                   /\ PlaysFromStart(
                          startPlaybackSingle(processCommand(Memory, i, now),
                                              c, now), c)
                   /\ c < g_activeNumServos =>
                          PlaysFromStart(
                              startPlaybackAll(processCommand(Memory, i, now),
                                               now), c)

\* STOP has just halted a channel that was PLAYING beyond its first segment
C15_Witness ==
    /\ Reported("STOP command received - playback halted.")
    /\ Playing = {}
    /\ \E c \in wasPlaying : g_playbackInfo[c].currentSegment > 0

\* no stored sequence can be played and nothing is playing
Barren ==
    /\ \A c \in DOMAIN g_sequences : Len(g_sequences[c]) < 2
    /\ Playing = {}
    /\ g_playbackState = "IDLE"

\* the latest step was a LOAD_SEQ that stored at least 2 keyframes
LoadedPlayable ==
    /\ Reported("Loaded sequence for servo")
    /\ ReportedArgs[2] >= 2

\* C16: CLEAR_ALL leaves the store empty and every channel IDLE; from then
\* on, until a step that is a successful LOAD_SEQ of at least 2 keyframes,
\* no channel is PLAYING and every PLAY_SERVO and PLAY_LOADED is rejected
\* without effect. (The state after CLEAR_ALL is Barren, every step other
\* than such a load keeps a Barren state Barren, and in a Barren state the
\* play commands are rejected.)
C16_ClearAllDisablesPlayback ==
    [][ /\ Reported("All stored sequences cleared.")' =>
               (g_sequences' = EmptyMap /\ Barren')
        /\ (Barren /\ ~LoadedPlayable') => Barren'
        /\ Barren =>
               \A i \in Received({"PLAY_SERVO", "PLAY_LOADED"}) :
                   /\ NoEffect(processCommand(Memory, i, now))
                   /\ LastReport(processCommand(Memory, i, now)) \in
                          {"Cannot play servo",
                           "Cannot PLAY_LOADED: No sequences loaded.",
                           "No valid sequences found for active servos."}
      ]_vars

\* CLEAR_ALL has just emptied a store that a channel was PLAYING from
C16_Witness ==
    /\ Reported("All stored sequences cleared.")
    /\ wasPlaying /= {}
    /\ g_sequences = EmptyMap

\* C17: in every state between two steps of the loop the global flag is
\* PLAYING exactly when at least one channel is PLAYING.
C17_FlagIffSomeChannelPlaying ==
    (g_playbackState = "PLAYING") <=> (Playing /= {})

\* a scheduler tick has just ended the sequence of one channel while another
\* channel keeps playing
C17_Witness ==
    /\ lastUpdateTime = now
    /\ pwm /= <<>>
    /\ Playing /= {}
    /\ wasPlaying \ Playing /= {}
    /\ g_playbackState = "PLAYING"

\* the keywords of the protocol, and those that take no field
Keywords ==
    {kwSTOP, kwCLEAR_ALL, kwPLAY_LOADED, kwNUM_SERVOS, kwMA, kwSA,
     kwLOAD_SEQ, kwPLAY_SERVO}
FieldLess == {kwSTOP, kwCLEAR_ALL, kwPLAY_LOADED}

\* the text of the line before its first colon, the whole line if it has
\* none
Keyword(line) ==
    IF indexOf(line, ":") < 0 THEN line
    ELSE substring(line, 0, indexOf(line, ":"))

\* the input lines whose keyword is none of the eight (compared with its
\* case), or that have no colon and are none of the field-less keywords
UnrecognisedLines ==
    {line \in InputLines :
        \/ Keyword(line) \notin Keywords
        \/ indexOf(line, ":") < 0 /\ line \notin FieldLess}

\* C18: in every reachable state, a line whose keyword is not one of the
\* eight keywords, compared case-sensitively ('stop', 'Sa:0:90'), or that
\* has no colon and is not one of the three field-less keywords ('MA'),
\* changes nothing (stored sequences, playback records, global flag, active
\* count) and writes no pulse.
C18_UnrecognisedLineChangesNothing ==
    \A line \in UnrecognisedLines :
        NoEffect(processCommand(Memory, Decoded[line], now))

\* a line with an unknown keyword has just been dropped while a channel is
\* PLAYING
C18_Witness ==
    /\ Reported("Unknown command type")
    /\ Playing /= {}
    /\ wasPlaying = Playing

\* the number of fields a keyword takes
Arity(keyword) ==
    IF keyword \in FieldLess THEN 0
    ELSE IF keyword \in {kwSA, kwLOAD_SEQ} THEN 2
    ELSE 1

\* the number of colons of the line
Colons(line) == Cardinality({k \in 1..Len(line) : line[k] = ":"})

\* a colon of the line is followed by no text
HasEmptyField(line) ==
    \E k \in 1..Len(line) :
        /\ line[k] = ":"
        /\ k = Len(line) \/ line[k + 1] = ":"

\* the lines of a keyword that takes fields with a field missing (absent or
\* empty) or a field too many: those among the input lines, and MA and SA
\* with an empty angle
MalformedLines ==
    {line \in InputLines \cup {Text(kwMA, <<>>),
                               Text(kwSA, Text(<<"0">>, <<>>))} :
        /\ Keyword(line) \in Keywords \ FieldLess
        /\ \/ Colons(line) /= Arity(Keyword(line))
           \/ HasEmptyField(line)}

\* C19: in every reachable state, a line of a known keyword with the wrong
\* number of fields, a missing one ('MA:', 'SA:0:', 'SA:0', 'PLAY_SERVO:',
\* 'NUM_SERVOS:') or one too many ('SA:0:45:extra'), changes nothing and
\* writes no pulse.
C19_WrongFieldCountChangesNothing ==
    \A line \in MalformedLines :
        NoEffect(processCommand(Memory, Decode(line), now))

\* the count lies in [1, MAX_SERVOS]
ValidCount(n) == 1 <= n /\ n <= MAX_SERVOS

\* the counts from below the valid range to above it
Counts == 0..(MAX_SERVOS + 1)

\* C20: in every reachable state, NUM_SERVOS:<n> sets the active count to
\* n exactly when 1 <= n <= MAX_SERVOS and leaves it as it is otherwise,
\* for the counts of the input lines as processCommand decodes them and for
\* every count from 0 to MAX_SERVOS + 1; and the active count of every
\* reachable state lies in [1, MAX_SERVOS].
C20_ActiveCountInRange ==
    /\ ValidCount(g_activeNumServos)
    /\ \A i \in Received({"NUM_SERVOS"}) :
           processCommand(Memory, i, now).activeNumServos
               = IF ValidCount(i.num) THEN i.num ELSE g_activeNumServos
    /\ \A n \in Counts :
           setNumServos(Memory, n).activeNumServos
               = IF ValidCount(n) THEN n ELSE g_activeNumServos

\* a count outside [1, MAX_SERVOS] has just been rejected after an earlier
\* NUM_SERVOS had changed the active count
C20_Witness ==
    /\ Reported("Invalid number of servos.")
    /\ g_activeNumServos /= DEFAULT_ACTIVE_SERVOS

\* C22: when the PWM driver did not initialise at startup the device is
\* halted for good: every later step leaves the stored sequences, the
\* playback records, the global flag, the active count and the time of the
\* last tick as they are, dispatches no line, prints nothing and writes no
\* pulse, and no pulse was written at startup either. The two-board
\* firmware halts exactly when one of its two boards fails.
C22_FailedDriverHalts ==
    /\ [](halted => pwm = <<>>)
    /\ [](\A board1, board2 \in BOOLEAN :
             setupBoards(board1, board2).halted <=> ~(board1 /\ board2))
    /\ [][halted =>
             /\ halted'
             /\ pwm' = <<>>
             /\ serial' = <<>>
             /\ UNCHANGED <<g_sequences, g_activeNumServos, g_playbackState,
                            g_playbackInfo, lastUpdateTime, dispatched>>
         ]_vars

\* the driver failed at startup and a tick interval has passed since
C22_Witness ==
    /\ halted
    /\ ULGeq(ULSub(now, SETUP_DELAY_MS), UPDATE_INTERVAL_MS)
    /\ TickDue

\* the newline-terminated lines of the bytes from position k on, in order
\* and without their carriage returns, behind the text `line` of the line
\* that is open at k, and the text that follows the last newline
RECURSIVE SplitLines(_, _, _)
SplitLines(bytes, k, line) ==
    IF k > Len(bytes) THEN [lines |-> <<>>, rest |-> line]
    ELSE IF bytes[k] = NL
    THEN [lines |-> <<line>> \o SplitLines(bytes, k + 1, <<>>).lines,
          rest |-> SplitLines(bytes, k + 1, <<>>).rest]
    ELSE SplitLines(bytes, k + 1,
                    IF bytes[k] = CR THEN line ELSE Append(line, bytes[k]))

\* the bytes read so far, split into lines
ReadSoFar == SplitLines(SubSeq(wire, 1, consumed), 1, <<>>)

\* C21: lines are dispatched in arrival order. Between two passes of the
\* loop the lines handed to processCommand so far are exactly the
\* newline-terminated lines of the bytes read so far, in their order and
\* each once, the line buffer holds the text read behind the last newline
\* and no command is pending; a pass dispatches at most one line, reads no
\* byte behind the first newline it meets, and after a dispatch, whatever
\* the line was, the line buffer is empty.
C21_LinesDispatchedInOrder ==
    /\ [](/\ commandComplete = FALSE
          /\ consumed <= arrived
          /\ arrived <= Len(wire)
          /\ dispatched = ReadSoFar.lines
          /\ inputBuffer = ReadSoFar.rest)
    /\ [][/\ Len(dispatched') <= Len(dispatched) + 1
          /\ SubSeq(dispatched', 1, Len(dispatched)) = dispatched
          /\ \A k \in (consumed + 1)..(consumed' - 1) : wire[k] /= NL
          /\ dispatched' /= dispatched =>
                 /\ wire[consumed'] = NL
                 /\ inputBuffer' = <<>>
                 /\ commandComplete' = FALSE
         ]_vars

\* every byte of the run of mixed lines has been read: six lines have been
\* dispatched, the empty one, the rejected ones and the failed load among
\* them, and the text without a newline waits in the line buffer
C21_Witness ==
    /\ wire = wireMixed
    /\ consumed = Len(wire)
    /\ Len(dispatched) = 6
    /\ dispatched[4] = <<>>
    /\ inputBuffer = <<"P", "L", "A">>
    /\ ~halted

\* the pulses of the whole degrees from 0 to 180 under the linear map
PulseImage == {map(d, 0, 180, SERVO_MIN, SERVO_MAX) : d \in 0..180}

\* angles in half degrees, from 10 degrees below the range to 10 above
HalfDegrees == (0 - 20)..(2 * 180 + 20)

\* the pulse of every such angle
PulseOf == [h \in HalfDegrees |-> angleToPulse(Frac(h, 2))]

\* the map from angle to pulse: 0 degrees gives SERVO_MIN, 180 degrees gives
\* SERVO_MAX, an angle outside [0, 180] gives the pulse of the nearer end,
\* every pulse is the pulse of a whole degree of [0, 180] and lies in
\* [SERVO_MIN, SERVO_MAX], and a larger angle never gives a smaller pulse
PulseMapClampedMonotone ==
    /\ PulseOf[0] = SERVO_MIN
    /\ PulseOf[2 * 180] = SERVO_MAX
    /\ PulseImage \subseteq SERVO_MIN..SERVO_MAX
    /\ \A h \in HalfDegrees :
           /\ PulseOf[h] \in PulseImage
           /\ h < 0 => PulseOf[h] = SERVO_MIN
           /\ h > 2 * 180 => PulseOf[h] = SERVO_MAX
           /\ (h + 1) \in HalfDegrees => PulseOf[h] <= PulseOf[h + 1]

\* C24: every pulse written to the PWM output is the pulse of an angle of
\* [0, 180] under the linear map with 0 degrees at 150 and 180 degrees at
\* 600, so it lies in [150, 600]; the map clamps the angle first and is
\* monotone non-decreasing in it.
C24_PulsesWithinServoRange ==
    /\ PulseMapClampedMonotone
    /\ \A k \in 1..Len(pwm) :
           /\ pwm[k].pulse \in PulseImage
           /\ SERVO_MIN <= pwm[k].pulse
           /\ pwm[k].pulse <= SERVO_MAX

\* the keyframe loaded with 270 degrees is stored at 180, and a tick has
\* written the pulse of the last keyframe, loaded with -5 degrees
C24_Witness ==
    /\ wire = wireClamped
    /\ 0 \in DOMAIN g_sequences
    /\ g_sequences[0][1].angle = F(180)
    /\ \E k \in 1..Len(pwm) : pwm[k] = [channel |-> 0, pulse |-> SERVO_MIN]

\* the keyframe pair of the segment the channel c is in
SegmentStart(c) == g_sequences[c][g_playbackInfo[c].currentSegment + 1]
SegmentEnd(c) == g_sequences[c][g_playbackInfo[c].currentSegment + 2]

\* the channel c is PLAYING a segment whose end keyframe is not later than
\* its start keyframe
InDegenerateSegment(c) ==
    /\ c \in Playing
    /\ c \in DOMAIN g_sequences
    /\ g_playbackInfo[c].currentSegment < Len(g_sequences[c]) - 1
    /\ SegmentEnd(c).time <= SegmentStart(c).time

\* the channel c is further in its sequence in m than it is now
Advanced(m, c) ==
    m.playbackInfo[c].currentSegment > g_playbackInfo[c].currentSegment

\* C23: in every reachable state, for a channel that is PLAYING a segment
\* whose end keyframe time is less than or equal to its start keyframe
\* time, the tick that evaluates the segment sets the current angle to
\* exactly the angle of the end keyframe, and the channel has advanced past
\* the segment after that tick or after the tick one interval later.
C23_DegenerateSegmentEnds ==
    \A c \in DOMAIN g_playbackInfo : \A ub \in FloatOverflowResults :
        InDegenerateSegment(c) =>
            /\ updatePlayback(Memory, now, ub).playbackInfo[c].currentAngle
                   = SegmentEnd(c).angle
            /\ \/ Advanced(updatePlayback(Memory, now, ub), c)
               \/ Advanced(
                      updatePlayback(updatePlayback(Memory, now, ub),
                                     ULAdd(now, UPDATE_INTERVAL_MS), ub), c)

\* control coordinates in [0, 180], whole and fractional
ProbeAngles == {F(0), F(45), Frac(181, 2), F(180)}

\* the points bezierAngle reads, with every coordinate a probe angle
ControlPolygons ==
    [p0_angle : ProbeAngles, p1_angle : ProbeAngles,
     p2_angle : ProbeAngles, p3_angle : ProbeAngles]

\* curve parameters below 0 and above 1
ParametersBelow == {F(0 - 2), Frac(0 - 1, 2), Frac(0 - 1, 100)}
ParametersAbove == {Frac(101, 100), Frac(3, 2), F(2)}

\* bezierAngle at p: the start angle at t = 0, the end angle at t = 1, and
\* the values of t = 0 and t = 1 for a parameter outside [0, 1]
EndpointsExact(p) ==
    /\ bezierAngle(F(0), p) = p.p0_angle
    /\ bezierAngle(F(1), p) = p.p3_angle
    /\ \A t \in ParametersBelow : bezierAngle(t, p) = bezierAngle(F(0), p)
    /\ \A t \in ParametersAbove : bezierAngle(t, p) = bezierAngle(F(1), p)

\* every probe polygon has exact endpoints
ProbeEndpointsExact == \A p \in ControlPolygons : EndpointsExact(p)

\* C25: bezierAngle returns p0 at t = 0 and p3 at t = 1 for all control
\* coordinates in [0, 180], and a parameter below 0 or above 1 gives the
\* value of t = 0 or t = 1; this holds of the probe polygons and of the
\* points of every segment a channel is playing.
C25_BezierEndpointsExact ==
    /\ ProbeEndpointsExact
    /\ \A c \in Playing :
           (c \in DOMAIN g_sequences
               /\ g_playbackInfo[c].currentSegment < Len(g_sequences[c]) - 1)
           => EndpointsExact(
                  getBezierPointsForSegment(
                      Memory, c, g_playbackInfo[c].currentSegment))

\* the tick of the loop pass that dispatched PLAY_SERVO:0 has evaluated the
\* curve of the first segment at t = 0 and written the start angle
C25_Witness ==
    /\ wire = wirePlay
    /\ 0 \in Playing
    /\ lastUpdateTime = now
    /\ g_playbackInfo[0].segmentStartTime = now
    /\ g_playbackInfo[0].currentSegment = 0
    /\ SegmentStart(0).time < SegmentEnd(0).time
    /\ g_playbackInfo[0].currentAngle = SegmentStart(0).angle
    /\ pwm /= <<>>
    /\ pwm[Len(pwm)] = [channel |-> 0,
                        pulse |-> angleToPulse(SegmentStart(0).angle)]

\* the latest step handled a PLAY_SERVO or PLAY_LOADED that started playback
StartReported ==
    \/ Reported("Starting playback for servo")
    \/ Reported("Starting playback for all loaded sequences.")

\* C27: a channel that is not PLAYING before a step and PLAYING after it
\* was started by PLAY_SERVO or PLAY_LOADED, and the store holds at least
\* two keyframes for it, before the step and after; a tick (the only step
\* that moves lastUpdateTime) and the handlers of LOAD_SEQ, NUM_SERVOS, SA,
\* MA, STOP and CLEAR_ALL (which report other lines) start no channel.
C27_OnlyPlayCommandsStart ==
    [][\A c \in Playing' \ Playing :
           /\ StartReported'
           /\ lastUpdateTime' = lastUpdateTime
           /\ c \in DOMAIN g_sequences
           /\ Len(g_sequences[c]) >= 2
           /\ g_sequences' = g_sequences]_vars

\* PLAY_LOADED has started a channel while the store holds a sequence of a
\* single keyframe, whose channel stays IDLE
C27_Witness ==
    /\ Reported("Starting playback for all loaded sequences.")
    /\ Playing /= {}
    /\ \E c \in DOMAIN g_sequences :
           /\ Len(g_sequences[c]) = 1
           /\ c < g_activeNumServos
           /\ c \notin Playing

\* the latest step wrote to channel c, and its last write to c is the pulse
\* of the angle recorded for c
LastWriteCarriesAngle(c) ==
    /\ c \in Written
    /\ LET last == CHOOSE k \in 1..Len(pwm) :
                       /\ pwm[k].channel = c
                       /\ \A j \in (k + 1)..Len(pwm) : pwm[j].channel /= c
       IN  pwm[last].pulse = angleToPulse(g_playbackInfo[c].currentAngle)

\* C29: a tick (the step that moves lastUpdateTime) that takes a channel
\* with a stored sequence from PLAYING to IDLE leaves its currentAngle at the
\* angle of the last keyframe of that sequence, and the last pulse the tick
\* wrote to the channel is the pulse of that angle.
C29_FinishedChannelRestsOnLastKeyframe ==
    [][lastUpdateTime' /= lastUpdateTime =>
          \A c \in Playing \ Playing' :
              c \in DOMAIN g_sequences =>
                  /\ g_playbackInfo'[c].currentAngle
                         = g_sequences[c][Len(g_sequences[c])].angle
                  /\ LastWriteCarriesAngle(c)']_vars

\* a channel is PLAYING in a segment that has a keyframe pair
ValidSegment(c) ==
    /\ c \in DOMAIN g_sequences
    /\ g_playbackInfo[c].currentSegment >= 0
    /\ g_playbackInfo[c].currentSegment < Len(g_sequences[c]) - 1

\* C30: a tick (the step that moves lastUpdateTime) taken while the global
\* flag is PLAYING writes to every channel that is PLAYING in a segment with
\* a keyframe pair, and the last pulse it writes to it is the pulse of the
\* angle it computed for it; a tick taken while the flag is not PLAYING
\* writes no pulse, prints nothing, and leaves the store, the playback
\* records, the flag and the active count as they are.
C30_TickWritesEveryPlayingChannel ==
    [][lastUpdateTime' /= lastUpdateTime =>
          IF g_playbackState = "PLAYING"
          THEN \A c \in Playing : ValidSegment(c) => LastWriteCarriesAngle(c)'
          ELSE /\ pwm' = <<>>
               /\ serial' = <<>>
               /\ UNCHANGED <<g_sequences, g_activeNumServos, g_playbackState,
                              g_playbackInfo>>]_vars

\* a tick has just written to the two channels that were PLAYING, and both
\* are still PLAYING
C30_Witness ==
    /\ lastUpdateTime = now
    /\ Cardinality(wasPlaying) >= 2
    /\ Playing = wasPlaying
    /\ \A c \in wasPlaying : LastWriteCarriesAngle(c)

\* C28: while loop() keeps calling updatePlayback and the clock advances,
\* with no further command, playback of sequences with non-decreasing
\* keyframe times ends: some channel PLAYING leads to no channel PLAYING
\* with the global flag IDLE, and the step that leaves no channel PLAYING
\* clears the flag.
C28_PlaybackTerminates ==
    /\ (Playing /= {}) ~> (Playing = {} /\ g_playbackState = "IDLE")
    /\ [][(Playing /= {} /\ Playing' = {}) => g_playbackState' = "IDLE"]_vars

\* the group of two sequences has played to its end
C28_Witness ==
    /\ dispatched = playGroup
    /\ wasPlaying /= {}
    /\ Playing = {}
    /\ g_playbackState = "IDLE"
    /\ Reported("All playback finished.")
    /\ \A c \in DOMAIN g_sequences :
           g_playbackInfo[c].currentAngle
               = g_sequences[c][Len(g_sequences[c])].angle

\* the fraction a is below the fraction b
Below(a, b) == FSub(b, a).n > 0

\* the store holds for channel c two keyframes without control points, the
\* first at time 0, the second at a later time and a larger angle
IsRamp(c) ==
    /\ c \in DOMAIN g_sequences
    /\ Len(g_sequences[c]) = 2
    /\ g_sequences[c][1].time = 0
    /\ g_sequences[c][2].time > 0
    /\ \A k \in 1..2 : /\ ~g_sequences[c][k].cp_in.exists
                       /\ ~g_sequences[c][k].cp_out.exists
    /\ Below(g_sequences[c][1].angle, g_sequences[c][2].angle)

\* the time since channel c was started, at the present reading of millis()
ElapsedOf(c) == ULSub(now, g_playbackInfo[c].segmentStartTime)

\* C26: a channel started by PLAY_SERVO on the keyframes (0, a0), (T, a1)
\* with a0 < a1 and no control points holds a0 until its first tick; a tick
\* at elapsed time 0 leaves the angle a0, a tick at an elapsed time
\* strictly between 0 and T leaves it strictly between a0 and a1 and the
\* channel PLAYING, no tick lowers the angle, and the first tick at an
\* elapsed time of T or more leaves the angle a1 and the channel IDLE.
C26_RampInterpolates ==
    /\ [](\A c \in Playing :
             (IsRamp(c) /\ g_playbackInfo[c].segmentStartTime = now)
             => g_playbackInfo[c].currentAngle = g_sequences[c][1].angle)
    /\ [][lastUpdateTime' /= lastUpdateTime =>
             \A c \in Playing :
                 (IsRamp(c) /\ ~g_playbackInfo[c].playingAll) =>
                     /\ ~Below(g_playbackInfo'[c].currentAngle,
                               g_playbackInfo[c].currentAngle)
                     /\ ElapsedOf(c) = 0 =>
                            g_playbackInfo'[c].currentAngle
                                = g_sequences[c][1].angle
                     /\ (0 < ElapsedOf(c)
                            /\ ElapsedOf(c) < g_sequences[c][2].time) =>
                            /\ Below(g_sequences[c][1].angle,
                                     g_playbackInfo'[c].currentAngle)
                            /\ Below(g_playbackInfo'[c].currentAngle,
                                     g_sequences[c][2].angle)
                            /\ c \in Playing'
                     /\ ElapsedOf(c) >= g_sequences[c][2].time =>
                            /\ g_playbackInfo'[c].currentAngle
                                   = g_sequences[c][2].angle
                            /\ c \notin Playing']_vars

\* the ramp from 90 to 150 degrees over one second has played to its end,
\* in a tick later than its end time
C26_Witness ==
    /\ dispatched = playSlowRamp
    /\ lastUpdateTime = now
    /\ 0 \in wasPlaying
    /\ 0 \notin Playing
    /\ ElapsedOf(0) > g_sequences[0][2].time
    /\ g_playbackInfo[0].currentAngle = F(150)

\* the duration of the segment channel c is in, from its keyframe times
SegmentDuration(c) == SegmentEnd(c).time - SegmentStart(c).time

\* C31: a call of updatePlayback (the step that moves lastUpdateTime) moves
\* a channel that is PLAYING in a segment forward by at most one segment;
\* it leaves a segment of positive duration d only when now -
\* segmentStartTime >= d; a channel that advances and stays PLAYING gets
\* segmentStartTime = now, and a channel that stays in its segment keeps
\* its segmentStartTime.
C31_SegmentsClockDriven ==
    [][lastUpdateTime' /= lastUpdateTime =>
          \A c \in Playing :
              ValidSegment(c) =>
                  /\ g_playbackInfo'[c].currentSegment
                         \in {g_playbackInfo[c].currentSegment,
                              g_playbackInfo[c].currentSegment + 1}
                  /\ (SegmentDuration(c) > 0
                         /\ g_playbackInfo'[c].currentSegment
                                /= g_playbackInfo[c].currentSegment)
                     => ULGeq(ElapsedOf(c), SegmentDuration(c))
                  /\ (c \in Playing'
                         /\ g_playbackInfo'[c].currentSegment
                                /= g_playbackInfo[c].currentSegment)
                     => g_playbackInfo'[c].segmentStartTime = now
                  /\ g_playbackInfo'[c].currentSegment
                         = g_playbackInfo[c].currentSegment
                     => g_playbackInfo'[c].segmentStartTime
                            = g_playbackInfo[c].segmentStartTime]_vars

\* the k-th record of a payload, counted from 1 in the order received
RecordAt(data, k) ==
    CHOOSE r \in Records(data) :
        Cardinality({q \in Records(data) : q[1] < r[1]}) = k - 1

\* the text of the first field of record r, and of its second field
FirstField(data, r) ==
    SubSeq(data, r[1] + 1,
           (CHOOSE k \in Commas(data, r) :
                \A j \in Commas(data, r) : k <= j) - 1)

SecondField(data, r) ==
    LET first == CHOOSE k \in Commas(data, r) :
                     \A j \in Commas(data, r) : k <= j
        rest == {j \in Commas(data, r) : j > first} \cup {r[2]}
    IN  SubSeq(data, first + 1,
               (CHOOSE k \in rest : \A j \in rest : k <= j) - 1)

\* LOAD_SEQ lines: those of the input, and one for channel 1 whose second
\* keyframe lies before its first
ProbeLoads ==
    Received({"LOAD_SEQ"})
        \cup {Decode(Text(kwLOAD_SEQ, Text(<<"1">>, txtBackwards)))}

\* the time and the angle each record of a payload asks for, in the order
\* received, for the payloads of ProbeLoads whose records all have two
\* fields; evaluated once
RecordsAsSent ==
    [data \in {i.data : i \in {p \in ProbeLoads : ~HasShortRecord(p.data)}} |->
        [k \in 1..Cardinality(Records(data)) |->
            [time |-> toInt(FirstField(data, RecordAt(data, k))),
             angle |-> constrain(
                           toFloat(SecondField(data, RecordAt(data, k))),
                           F(0), F(180))]]]

\* the load i that ran to m either stored nothing, or stored for its
\* channel one keyframe per record, in the order of the records, left the
\* sequences and the playback records of the other channels, the global
\* flag and the active count as they were, and wrote no pulse
WholesaleLoad(m, i) ==
    IF LastReport(m) /= "Loaded sequence for servo"
    THEN m.sequences = g_sequences
    ELSE /\ DOMAIN m.sequences = DOMAIN g_sequences \cup {i.servoId}
         /\ i.data \in DOMAIN RecordsAsSent
         /\ Len(m.sequences[i.servoId]) = Len(RecordsAsSent[i.data])
         /\ \A k \in 1..Len(m.sequences[i.servoId]) :
                /\ m.sequences[i.servoId][k].time
                       = RecordsAsSent[i.data][k].time
                /\ m.sequences[i.servoId][k].angle
                       = RecordsAsSent[i.data][k].angle
         /\ \A c \in DOMAIN g_sequences \ {i.servoId} :
                m.sequences[c] = g_sequences[c]
         /\ DOMAIN m.playbackInfo = DOMAIN g_playbackInfo \cup {i.servoId}
         /\ \A c \in DOMAIN g_playbackInfo \ {i.servoId} :
                m.playbackInfo[c] = g_playbackInfo[c]
         /\ m.playbackState = g_playbackState
         /\ m.activeNumServos = g_activeNumServos
         /\ m.pwm = <<>>

\* C32: in every reachable state, a LOAD_SEQ that succeeds stores for its
\* channel exactly the keyframes of the records of its payload, in the
\* order received and with nothing of the previous sequence, changes no
\* other channel's sequence or playback record, and writes no pulse; a
\* LOAD_SEQ that does not succeed stores nothing.
C32_LoadIsWholesale ==
    \A i \in ProbeLoads :
        WholesaleLoad(loadSequenceFromString(Memory, i.servoId, i.data), i)

\* a load has just replaced the sequence of a channel while another channel
\* is PLAYING its own sequence
C32_Witness ==
    /\ Reported("Loaded sequence for servo")
    /\ pwm = <<>>
    /\ ReportedArgs[1] \notin Playing
    /\ ReportedArgs[2] = Len(g_sequences[ReportedArgs[1]])
    /\ \E c \in Playing :
           /\ c \in DOMAIN g_sequences
           /\ g_sequences[c] /= g_sequences[ReportedArgs[1]]

\* the memory m differs from the present one at most in the active count
\* and in the lines printed
OnlyCountChanged(m) ==
    /\ m.sequences = g_sequences
    /\ m.playbackInfo = g_playbackInfo
    /\ m.playbackState = g_playbackState
    /\ m.pwm = <<>>

\* updatePlayback leaves the same playback records and the same flag, and
\* writes the same pulses, from m as from the present memory
TicksAlike(m, ub) ==
    /\ updatePlayback(m, now, ub).playbackInfo
           = updatePlayback(Memory, now, ub).playbackInfo
    /\ updatePlayback(m, now, ub).playbackState
           = updatePlayback(Memory, now, ub).playbackState
    /\ updatePlayback(m, now, ub).pwm = updatePlayback(Memory, now, ub).pwm

\* the channels updatePlayback writes to from m
WrittenFrom(m, ub) ==
    {updatePlayback(m, now, ub).pwm[k].channel :
        k \in 1..Len(updatePlayback(m, now, ub).pwm)}

\* C33: in every reachable state, NUM_SERVOS with any count from 0 to
\* MAX_SERVOS + 1 changes no sequence, no playback record and not the
\* global flag and writes no pulse; the next tick does what it would have
\* done without it, and writes to every channel that is PLAYING in a
\* segment with a keyframe pair, whatever the count; processCommand hands
\* NUM_SERVOS to setNumServos and does nothing else.
C33_CountChangeKeepsPlayback ==
    /\ \A i \in Received({"NUM_SERVOS"}) :
           processCommand(Memory, i, now) = setNumServos(Memory, i.num)
    /\ \A n \in Counts :
           /\ OnlyCountChanged(setNumServos(Memory, n))
           /\ \A ub \in FloatOverflowResults :
                  /\ TicksAlike(setNumServos(Memory, n), ub)
                  /\ \A c \in Playing :
                         (g_playbackState = "PLAYING" /\ ValidSegment(c))
                         => c \in WrittenFrom(setNumServos(Memory, n), ub)

\* the active count has been lowered to 1 in a pass of loop() whose tick
\* has then written to channel 1, which goes on PLAYING
C33_Witness ==
    /\ wire = wireShrink
    /\ Reported("Number of active servos set to")
    /\ g_activeNumServos = 1
    /\ 1 \in Playing
    /\ 1 \in wasPlaying
    /\ 1 \in Written
    /\ lastUpdateTime = now

\* the handler that ran to m wrote the pulse of the angle once to each of the
\* channels 0 .. active count - 1, in this order, and to no other channel
MasterWrites(m, angle) ==
    /\ Len(m.pwm) = g_activeNumServos
    /\ \A k \in 1..Len(m.pwm) :
           /\ m.pwm[k].channel = k - 1
           /\ m.pwm[k].pulse = angleToPulse(angle)

\* after the handler that ran to m every channel inside the active count has
\* a playback record, IDLE, at the angle; the channels outside it have the
\* records and the current angles they had
MasterRecords(m, angle) ==
    /\ DOMAIN m.playbackInfo
           = DOMAIN g_playbackInfo \cup 0..(g_activeNumServos - 1)
    /\ \A c \in DOMAIN m.playbackInfo :
           IF c < g_activeNumServos
           THEN /\ m.playbackInfo[c].state = "IDLE"
                /\ m.playbackInfo[c].currentAngle = angle
           ELSE m.playbackInfo[c].currentAngle
                    = g_playbackInfo[c].currentAngle

\* C34: in every reachable state, an MA line with an angle in [0, 180], and
\* setMasterAngle on each of the probe angles, writes the pulse of the angle
\* exactly once to each channel 0 .. active count - 1 and to no channel at or
\* above the count; afterwards every channel inside the count has a playback
\* record that is IDLE at the angle, and the current angle of every channel
\* outside the count is unchanged.
C34_MasterAngleWritesActiveChannels ==
    /\ \A i \in Received({"MA"}) :
           ~AngleOutOfRange(i.angle) =>
               /\ MasterWrites(processCommand(Memory, i, now), i.angle)
               /\ MasterRecords(processCommand(Memory, i, now), i.angle)
    /\ \A a \in ProbeAngles :
           /\ MasterWrites(setMasterAngle(Memory, a), a)
           /\ MasterRecords(setMasterAngle(Memory, a), a)

\* MA:90 has just been carried out with five channels active while channel 5,
\* outside the count, keeps the record and the angle its playback had reached
C34_Witness ==
    /\ Reported("All active servos set to")
    /\ g_activeNumServos = 5
    /\ Len(pwm) = 5
    /\ \A c \in 0..4 : g_playbackInfo[c].currentAngle = F(90)
    /\ 5 \in DOMAIN g_playbackInfo
    /\ g_playbackInfo[5].currentAngle /= F(90)

\* C35: after a PLAY_LOADED that started channels, every PLAYING channel is
\* at currentSegment 0, all of them have the same segmentStartTime (the
\* clock of the command) and all are marked playingAll; after a successful
\* PLAY_SERVO the channel it started is marked not playingAll.
C35_GroupStartIsUniform ==
    /\ Reported("Starting playback for all loaded sequences.") =>
           /\ Playing /= {}
           /\ \A c \in Playing :
                  /\ g_playbackInfo[c].currentSegment = 0
                  /\ g_playbackInfo[c].playingAll
           /\ \A c, d \in Playing :
                  /\ g_playbackInfo[c].segmentStartTime
                         = g_playbackInfo[d].segmentStartTime
                  /\ g_playbackInfo[c].segmentStartTime = now
    /\ Reported("Starting playback for servo") =>
           /\ ReportedArgs[1] \in Playing
           /\ ~g_playbackInfo[ReportedArgs[1]].playingAll

\* PLAY_LOADED has just started two channels, after the clock had moved on
\* from setup and while a channel was PLAYING
C35_Witness ==
    /\ Reported("Starting playback for all loaded sequences.")
    /\ Cardinality(Playing) >= 2
    /\ wasPlaying /= {}
    /\ now /= SETUP_DELAY_MS

\* the time offsets a test of C36 gives to the control points that exist
ProbeDeltaTimes == {F(0), F(-500), Frac(1001, 2)}

\* "0,0,,,99,40;50,100,-1,-20;120,30": txtCurve with other time offsets
txtCurveRetimed ==
    <<"0", ",", "0", ",", ",", ",", "9", "9", ",", "4", "0", ";",
      "5", "0", ",", "1", "0", "0", ",", "-", "1", ",", "-", "2", "0", ";",
      "1", "2", "0", ",", "3", "0">>

\* the control point with its time offset replaced, when it exists
Retime(cp, x) == IF cp.exists THEN [cp EXCEPT !.dt = x] ELSE cp

\* the sequence with the time offset of every existing control point replaced
RetimedSequence(seq, x) ==
    [k \in DOMAIN seq |->
        [seq[k] EXCEPT !.cp_in = Retime(@, x), !.cp_out = Retime(@, x)]]

\* the store with the time offset of every existing control point replaced
RetimedStore(sequences, x) ==
    [c \in DOMAIN sequences |-> RetimedSequence(sequences[c], x)]

\* the memory m with the time offsets of its store replaced
Retimed(m, x) == [m EXCEPT !.sequences = RetimedStore(@, x)]

\* the handlers that ran to a and to b wrote the same pulses, printed the
\* same, and left the same playback records, flag and active count, and
\* stores that differ at most in time offsets of existing control points
SameButTimes(a, b) ==
    /\ a.pwm = b.pwm
    /\ a.serial = b.serial
    /\ a.playbackInfo = b.playbackInfo
    /\ a.playbackState = b.playbackState
    /\ a.activeNumServos = b.activeNumServos
    /\ RetimedStore(a.sequences, F(0)) = RetimedStore(b.sequences, F(0))

\* the two payloads that differ in time offsets only are parsed to sequences
\* that differ in time offsets only, and the offsets were read
RetimedLoadsAgree ==
    /\ ParseSequence(txtCurve).ok
    /\ ParseSequence(txtCurve) /= ParseSequence(txtCurveRetimed)
    /\ ParseSequence(txtCurve).ok = ParseSequence(txtCurveRetimed).ok
    /\ RetimedSequence(ParseSequence(txtCurve).sequence, F(0))
           = RetimedSequence(ParseSequence(txtCurveRetimed).sequence, F(0))

\* C36: the time offset of a control point never reaches an output.  In
\* every reachable state, with the time offsets of all existing control
\* points of the store replaced by any probe value, the tick and every
\* command write the same pulses, print the same and leave the same playback
\* records and flag as without the replacement, and stores that again differ
\* in time offsets only; payloads that differ in time offsets only are
\* parsed to sequences that differ in time offsets only.
C36_DeltaTimeHasNoEffect ==
    /\ RetimedLoadsAgree
    /\ \A x \in ProbeDeltaTimes :
           /\ \A ub \in FloatOverflowResults :
                  SameButTimes(updatePlayback(Retimed(Memory, x), now, ub),
                               updatePlayback(Memory, now, ub))
           /\ \A i \in Instructions :
                  SameButTimes(processCommand(Retimed(Memory, x), i, now),
                               processCommand(Memory, i, now))

\* channel 1 plays the curve, in a segment whose keyframes carry control
\* points with time offsets, and the tick has just written its pulse
C36_Witness ==
    /\ 1 \in Playing
    /\ 1 \in Written
    /\ lastUpdateTime = now
    /\ ValidSegment(1)
    /\ SegmentStart(1).cp_out.exists
    /\ SegmentStart(1).cp_out.dt = F(10)
    /\ SegmentEnd(1).cp_in.dt = F(-10)
    /\ g_playbackInfo[1].currentAngle /= F(0)

\* the angle offsets a test of C37 gives to a control point
ProbeDeltaAngles == {F(-200), F(-20), F(0), F(40), F(200)}

\* the control points of the test: none, and one with each probe offset
ProbeControlPoints ==
    {NoControlPoint}
    \cup {[dt |-> F(0), da |-> da, exists |-> TRUE] : da \in ProbeDeltaAngles}

\* the keyframe pairs of the test: probe angles with probe control points
ProbePairs ==
    {<<[time |-> 0, angle |-> a, cp_in |-> NoControlPoint, cp_out |-> o],
       [time |-> 20, angle |-> b, cp_in |-> i, cp_out |-> NoControlPoint]>> :
        a \in ProbeAngles, o \in ProbeControlPoints,
        b \in ProbeAngles, i \in ProbeControlPoints}

\* curve parameters inside [0, 1]
ParametersWithin == {F(0), Frac(1, 8), Frac(1, 3), Frac(1, 2), Frac(7, 8), F(1)}

\* the angle in [0, 180]
InServoRange(angle) == FLeq(F(0), angle) /\ FLeq(angle, F(180))

\* the control angle of keyframe kf with control point cp: the angle plus
\* the offset, clamped to [0, 180], or the angle of the keyframe when the
\* control point does not exist
ControlAngle(kf, cp) ==
    IF cp.exists
    THEN IF FLt(FAdd(kf.angle, cp.da), F(0)) THEN F(0)
         ELSE IF FLt(F(180), FAdd(kf.angle, cp.da)) THEN F(180)
         ELSE FAdd(kf.angle, cp.da)
    ELSE kf.angle

\* the points of the segment kf0 -> kf1 have the control angles of the two
\* keyframes, and the curve stays in [0, 180] at every probe parameter
ControlAnglesClamped(points, kf0, kf1) ==
    /\ points.ok
    /\ points.p1_angle = ControlAngle(kf0, kf0.cp_out)
    /\ points.p2_angle = ControlAngle(kf1, kf1.cp_in)
    /\ \A t \in ParametersBelow \cup ParametersWithin \cup ParametersAbove :
           InServoRange(bezierAngle(t, points))

\* every probe pair has clamped control angles
ProbePairsClamped ==
    \A pair \in ProbePairs :
        ControlAnglesClamped(
            getBezierPointsForSegment([sequences |-> [c \in {0} |-> pair]],
                                      0, 0),
            pair[1], pair[2])

\* C37: for the segment from keyframe A to keyframe B, p1 is A.angle plus the
\* angle offset of A's outgoing control point clamped to [0, 180] when the
\* control point exists and A.angle otherwise, p2 likewise from B's incoming
\* control point, and the curve is inside [0, 180] at every parameter; this
\* holds of the probe pairs and of every segment a channel is playing, and
\* every current angle of a playback record is inside [0, 180].
C37_ControlAnglesClamped ==
    /\ ProbePairsClamped
    /\ \A c \in Playing :
           ValidSegment(c) =>
               ControlAnglesClamped(
                   getBezierPointsForSegment(
                       Memory, c, g_playbackInfo[c].currentSegment),
                   SegmentStart(c), SegmentEnd(c))
    /\ \A c \in DOMAIN g_playbackInfo :
           InServoRange(g_playbackInfo[c].currentAngle)

\* a tick has just written channel 1 part of the way along a curve whose
\* outgoing control angle leads above 180 and whose incoming one below 0
C37_Witness ==
    /\ 1 \in Playing
    /\ 1 \in Written
    /\ lastUpdateTime = now
    /\ now /= g_playbackInfo[1].segmentStartTime
    /\ ValidSegment(1)
    /\ FLt(F(180), FAdd(SegmentStart(1).angle, SegmentStart(1).cp_out.da))
    /\ FLt(FAdd(SegmentEnd(1).angle, SegmentEnd(1).cp_in.da), F(0))

\* the decimal numeral of the integer n
RECURSIVE Numeral(_)
Numeral(n) ==
    IF n < 0 THEN <<"-">> \o Numeral(0 - n)
    ELSE IF n < 10 THEN <<Digits[n + 1]>>
    ELSE Numeral(n \div 10) \o <<Digits[(n % 10) + 1]>>

\* the channel ids and the pulse widths of the SP lines a test of C38 sends
ProbeIds == {0 - 1, 0, 15, 16, 24, 25, 31, 32}

ProbePulses == {0 - 1, 0, 1500, 4095, 4096}

\* the line SP:<id>:<pulse>
PulseLine(id, pulse) == Text(kwSP, Text(Numeral(id), Numeral(pulse)))

\* the setPWM calls SP:<id>:<pulse> is to make on the sketch fw: one call
\* with the pulse when the id is below MAX_SERVOS of the sketch and the
\* pulse is in 0 .. 4095, on the first board for the ids 0 .. 15 and on the
\* second board for the ids 16 .. 31 of the sketch for two boards
PulseWrites(fw, id, pulse) ==
    IF id < 0 \/ pulse < 0 \/ pulse > 4095 \/ id >= MaxServosOf(fw)
    THEN <<>>
    ELSE IF fw = "one_board"
    THEN <<[board |-> 0, channel |-> id, pulse |-> pulse]>>
    ELSE IF id <= 15
    THEN <<[board |-> 0, channel |-> id, pulse |-> pulse]>>
    ELSE <<[board |-> 1, channel |-> id - 16, pulse |-> pulse]>>

\* C38: in every reachable state of a raw-pulse sketch, whatever the active
\* count is, SP:<id>:<pulse> makes exactly one setPWM call, with the given
\* pulse, iff 0 <= id < MAX_SERVOS and 0 <= pulse <= 4095, and makes none
\* otherwise; the sketch for two boards sends it to board id div 16 on the
\* channel id mod 16; the line leaves the active count as it is.
C38_PulseCommandWritesInRange ==
    \A id \in ProbeIds : \A pulse \in ProbePulses :
        /\ process_command(RawGlobals, PulseLine(id, pulse)).boards
               = PulseWrites(firmware, id, pulse)
        /\ process_command(RawGlobals, PulseLine(id, pulse)).active_num_servos
               = active_num_servos

\* the sketch for two boards has just carried out SP:20:1, on channel 4 of
\* the second board, with an active count of 4
C38_Witness ==
    /\ firmware = "two_boards"
    /\ active_num_servos = 4
    /\ dispatched /= <<>>
    /\ dispatched[Len(dispatched)] = PulseLine(20, 1)
    /\ boards = <<[board |-> 1, channel |-> 4, pulse |-> 1]>>

\* the lines of the bytes from position k on as a terminal splits them:
\* each run of bytes other than "\n" and "\r" that is followed by one of
\* the two is a line; `line` is the run that is open at k, and rest is the
\* run behind the last line end
RECURSIVE RawSplit(_, _, _)
RawSplit(bytes, k, line) ==
    IF k > Len(bytes) THEN [lines |-> <<>>, rest |-> line]
    ELSE IF bytes[k] = NL \/ bytes[k] = CR
    THEN [lines |-> (IF line = <<>> THEN <<>> ELSE <<line>>)
                        \o RawSplit(bytes, k + 1, <<>>).lines,
          rest |-> RawSplit(bytes, k + 1, <<>>).rest]
    ELSE RawSplit(bytes, k + 1, Append(line, bytes[k]))

\* the bytes a raw-pulse sketch has read so far, split into lines
RawReadSoFar == RawSplit(SubSeq(wire, 1, consumed), 1, <<>>)

\* C39: between two passes of loop() of a raw-pulse sketch, however the
\* bytes were split across the passes, the commands handed to
\* process_command so far are exactly the non-empty lines of the bytes read
\* so far, in their order and each once, and the line buffer holds the text
\* read behind the last line end.
C39_RawLinesDispatchedSeparately ==
    firmware /= "sequencer" =>
        /\ command_ready = FALSE
        /\ dispatched = RawReadSoFar.lines
        /\ input_buffer = RawReadSoFar.rest

\* the memory of a sketch that has neither sequences nor playback records
BlankMemory ==
    [sequences |-> EmptyMap, activeNumServos |-> DEFAULT_ACTIVE_SERVOS,
     playbackState |-> "IDLE", playbackInfo |-> EmptyMap,
     pwm |-> <<>>, serial |-> <<>>]

\* every key of the store and of the playback map is a channel of the
\* boards, every stored sequence has a keyframe, and every stored angle is
\* in [0, 180]
StoreWellFormed(sequences, info) ==
    /\ \A c \in DOMAIN sequences \cup DOMAIN info : c >= 0 /\ c < MAX_SERVOS
    /\ \A c \in DOMAIN sequences :
           /\ Len(sequences[c]) >= 1
           /\ \A k \in 1..Len(sequences[c]) :
                  InServoRange(sequences[c][k].angle)

\* loads on a blank memory: angles of 270 and -5 are stored as 180 and 0, an
\* empty payload and loads for the channels -1 and 32 store nothing
ProbeStoresWellFormed ==
    /\ loadSequenceFromString(BlankMemory, 0, txtClamped).sequences[0][1].angle
           = F(180)
    /\ loadSequenceFromString(BlankMemory, 0, txtClamped).sequences[0][2].angle
           = F(0)
    /\ \A c \in {0 - 1, 0, MAX_SERVOS - 1, MAX_SERVOS} :
           \A data \in {<<>>, txtClamped, txtRamp} :
               StoreWellFormed(
                   loadSequenceFromString(BlankMemory, c, data).sequences,
                   loadSequenceFromString(BlankMemory, c, data).playbackInfo)
    /\ DOMAIN loadSequenceFromString(BlankMemory, MAX_SERVOS - 1,
                                     txtRamp).sequences = {MAX_SERVOS - 1}

\* C40: in every reachable state every key of the sequence store and of the
\* playback map lies in [0, MAX_SERVOS), every stored sequence is non-empty
\* and every stored keyframe angle lies in [0, 180]; no step removes a
\* channel from the playback map.
C40_StoreWellFormed ==
    /\ ProbeStoresWellFormed
    /\ [](StoreWellFormed(g_sequences, g_playbackInfo))
    /\ [][DOMAIN g_playbackInfo \subseteq DOMAIN g_playbackInfo']_vars

\* CLEAR_ALL has just emptied the store after loads for the channels 0 and 5
\* had given channel 5 a playback record; the record is still there
C40_Witness ==
    /\ Reported("All stored sequences cleared.")
    /\ g_sequences = EmptyMap
    /\ g_activeNumServos = DEFAULT_ACTIVE_SERVOS
    /\ 5 \in DOMAIN g_playbackInfo

=============================================================================
